---- MODULE Spec2Model ----
(***************************************************************************)
(* Model of the acquisition engine of the Sensoray 626 comedi driver       *)
(* (drivers/staging/comedi/drivers/s626.c): the streaming-command state    *)
(* machine (s626_ai_cmd, s626_ai_inttrig, s626_ai_cancel), the interrupt   *)
(* handler (s626_irq_handler and the handlers it dispatches to), the       *)
(* command validation (s626_ai_cmdtest) and the hardware they talk to      *)
(* (SAA7146 interrupt registers, the RPS sequencer, the digital-edge       *)
(* capture logic and the counters used as pacing timers).                  *)
(*                                                                         *)
(* 32-bit unsigned fields of struct comedi_cmd are kept as two's           *)
(* complement 32-bit integers (the value u >= 2^31 is kept as u - 2^32),   *)
(* which is also what the driver's casts to int pointers read.             *)
(***************************************************************************)
EXTENDS Integers, Sequences, FiniteSets, TLC

(***************************************************************************)
(* Bounds of the model.                                                    *)
(***************************************************************************)
\* longest channel list of an armed command
MaxChan == 2
\* largest stop count of an armed command
MaxStop == 2
\* end-of-scan interrupts served per arm beyond the stop count
ExtraIrq == 1

(***************************************************************************)
(* Program constants.                                                      *)
(***************************************************************************)
S626_MAX_SPEED == 200000
S626_MIN_SPEED == 2000000000
\* s626_ns_to_timer: base = 500 (2MHz internal clock)
TimerBase == 500
\* highest digital-I/O line accepted as an external trigger
MaxDioLine == 39
\* largest finite stop count
MaxStopArg == 16777215
\* S626_DIO_BANKS groups of 16 lines
DioGroupSize == 16
\* the for loop of s626_reset_adc stops after 16 poll-list slots
MaxPollList == 16
\* S626_CLKENAB_ALWAYS / S626_CLKENAB_INDEX
S626_CLKENAB_ALWAYS == 0
S626_CLKENAB_INDEX == 1
\* S626_INTSRC_OVER
S626_INTSRC_OVER == 1
\* S626_LATCHSRC_A_INDXA
S626_LATCHSRC_A_INDXA == 1
\* TRIG_ROUND_* of cmd->flags & TRIG_ROUND_MASK
TRIG_ROUND_NEAREST == 0
TRIG_ROUND_DOWN == 1
TRIG_ROUND_UP == 2
TRIG_ROUND_UP_NEXT == 3

(***************************************************************************)
(* 32-bit unsigned arithmetic on two's complement representatives.         *)
(***************************************************************************)
\* 2^16: the arguments are multiplied in 16-bit halves
Half == 2^16

\* high and low 16-bit halves of the unsigned value of a
HiU32(a) == IF a >= 0 THEN a \div Half ELSE ((a + 2147483647 + 1) \div Half) + 32768
LoU32(a) == IF a >= 0 THEN a % Half ELSE (a + 2147483647 + 1) % Half

\* the representative of the unsigned value hi * 2^16 + lo
MkU32(hi, lo) == IF hi >= 32768 THEN (hi - Half) * Half + lo ELSE hi * Half + lo

\* unsigned a < b
ULess(a, b) == IF (a < 0) = (b < 0) THEN a < b ELSE b < 0

\* unsigned a * n modulo 2^32, for 0 <= n <= 65535
MulU32(a, n) ==
    LET lo == LoU32(a) * n
        hi == (HiU32(a) * n + lo \div Half) % Half
    IN  MkU32(hi, lo % Half)

(***************************************************************************)
(* The comedi command (struct comedi_cmd).  A trigger source is a bit mask *)
(* of TRIG_* flags: the set of the flags that are set.                     *)
(***************************************************************************)
TRIG_NOW == {"NOW"}
TRIG_INT == {"INT"}
TRIG_EXT == {"EXT"}
TRIG_TIMER == {"TIMER"}
TRIG_FOLLOW == {"FOLLOW"}
TRIG_COUNT == {"COUNT"}
TRIG_NONE == {"NONE"}

(***************************************************************************)
(* The validation helpers of comedi_fc.h, each returning the argument as   *)
(* it leaves it and whether it reports -EINVAL.                            *)
(***************************************************************************)
cfc_check_trigger_src(src, flags) ==
    [val |-> src \cap flags,
     err |-> (src \cap flags = {}) \/ (src \cap flags # src)]

cfc_check_trigger_is_unique(src) == Cardinality(src) > 1

cfc_check_trigger_arg_is(arg, val) ==
    [val |-> val, err |-> arg # val]

cfc_check_trigger_arg_min(arg, val) ==
    [val |-> IF ULess(arg, val) THEN val ELSE arg, err |-> ULess(arg, val)]

cfc_check_trigger_arg_max(arg, val) ==
    [val |-> IF ULess(val, arg) THEN val ELSE arg, err |-> ULess(val, arg)]

(***************************************************************************)
(* s626_ns_to_timer: the divider for an interval of nanosec ns under a     *)
(* rounding mode, the realized interval written back through the pointer   *)
(* and the value returned (divider - 1).                                   *)
(***************************************************************************)
\* the quotient of C's integer division, which truncates toward zero
CDiv(a, b) == IF a >= 0 THEN a \div b ELSE -((-a) \div b)

\* the divider with TRIG_ROUND_UP falling into the default case
NsDividerNoRoundUp(nanosec, round_mode) ==
    IF round_mode = TRIG_ROUND_DOWN THEN CDiv(nanosec, TimerBase)
    ELSE CDiv(nanosec + TimerBase \div 2, TimerBase)

NsDivider(nanosec, round_mode) ==
    IF round_mode = TRIG_ROUND_DOWN THEN CDiv(nanosec, TimerBase)
    ELSE IF round_mode = TRIG_ROUND_UP THEN CDiv(nanosec + TimerBase - 1, TimerBase)
    ELSE CDiv(nanosec + TimerBase \div 2, TimerBase)

s626_ns_to_timer(nanosec, round_mode) ==
    [nanosec |-> TimerBase * NsDivider(nanosec, round_mode),
     ret |-> NsDivider(nanosec, round_mode) - 1]

(***************************************************************************)
(* s626_ai_cmdtest, step by step.  Each step takes the command as the      *)
(* previous step left it and returns it with the error count.              *)
(***************************************************************************)
CmdTestStep1(c) ==
    LET a == cfc_check_trigger_src(c.start_src, TRIG_NOW \cup TRIG_INT \cup TRIG_EXT)
        b == cfc_check_trigger_src(c.scan_begin_src,
                                   TRIG_TIMER \cup TRIG_EXT \cup TRIG_FOLLOW)
        d == cfc_check_trigger_src(c.convert_src, TRIG_TIMER \cup TRIG_EXT \cup TRIG_NOW)
        e == cfc_check_trigger_src(c.scan_end_src, TRIG_COUNT)
        f == cfc_check_trigger_src(c.stop_src, TRIG_COUNT \cup TRIG_NONE)
    IN  [cmd |-> [c EXCEPT !.start_src = a.val, !.scan_begin_src = b.val,
                           !.convert_src = d.val, !.scan_end_src = e.val,
                           !.stop_src = f.val],
         err |-> a.err \/ b.err \/ d.err \/ e.err \/ f.err]

CmdTestStep2(c) ==
    \/ cfc_check_trigger_is_unique(c.start_src)
    \/ cfc_check_trigger_is_unique(c.scan_begin_src)
    \/ cfc_check_trigger_is_unique(c.convert_src)
    \/ cfc_check_trigger_is_unique(c.stop_src)

CmdTestStep3(c) ==
    LET sa == IF c.start_src # TRIG_EXT
              THEN cfc_check_trigger_arg_is(c.start_arg, 0)
              ELSE cfc_check_trigger_arg_max(c.start_arg, MaxDioLine)
        b1 == IF c.scan_begin_src = TRIG_EXT
              THEN cfc_check_trigger_arg_max(c.scan_begin_arg, MaxDioLine)
              ELSE [val |-> c.scan_begin_arg, err |-> FALSE]
        c1 == IF c.convert_src = TRIG_EXT
              THEN cfc_check_trigger_arg_max(c.convert_arg, MaxDioLine)
              ELSE [val |-> c.convert_arg, err |-> FALSE]
        b2 == IF c.scan_begin_src = TRIG_TIMER
              THEN cfc_check_trigger_arg_min(b1.val, S626_MAX_SPEED)
              ELSE [val |-> b1.val, err |-> FALSE]
        b3 == IF c.scan_begin_src = TRIG_TIMER
              THEN cfc_check_trigger_arg_max(b2.val, S626_MIN_SPEED)
              ELSE [val |-> b2.val, err |-> FALSE]
        c2 == IF c.convert_src = TRIG_TIMER
              THEN cfc_check_trigger_arg_min(c1.val, S626_MAX_SPEED)
              ELSE [val |-> c1.val, err |-> FALSE]
        c3 == IF c.convert_src = TRIG_TIMER
              THEN cfc_check_trigger_arg_max(c2.val, S626_MIN_SPEED)
              ELSE [val |-> c2.val, err |-> FALSE]
        se == cfc_check_trigger_arg_is(c.scan_end_arg, c.chanlist_len)
        st == IF c.stop_src = TRIG_COUNT
              THEN cfc_check_trigger_arg_max(c.stop_arg, MaxStopArg)
              ELSE cfc_check_trigger_arg_is(c.stop_arg, 0)
    IN  [cmd |-> [c EXCEPT !.start_arg = sa.val, !.scan_begin_arg = b3.val,
                           !.convert_arg = c3.val, !.scan_end_arg = se.val,
                           !.stop_arg = st.val],
         err |-> sa.err \/ b1.err \/ c1.err \/ b2.err \/ b3.err \/ c2.err \/ c3.err
                 \/ se.err \/ st.err]

CmdTestStep4(c) ==
    LET sb == IF c.scan_begin_src = TRIG_TIMER
              THEN s626_ns_to_timer(c.scan_begin_arg, c.flags).nanosec
              ELSE c.scan_begin_arg
        e1 == IF c.scan_begin_src = TRIG_TIMER /\ sb # c.scan_begin_arg THEN 1 ELSE 0
        cv == IF c.convert_src = TRIG_TIMER
              THEN s626_ns_to_timer(c.convert_arg, c.flags).nanosec
              ELSE c.convert_arg
        e2 == IF c.convert_src = TRIG_TIMER /\ cv # c.convert_arg THEN 1 ELSE 0
        prod == MulU32(cv, c.scan_end_arg)
        widen == /\ c.convert_src = TRIG_TIMER
                 /\ c.scan_begin_src = TRIG_TIMER
                 /\ ULess(sb, prod)
    IN  [cmd |-> [c EXCEPT !.scan_begin_arg = IF widen THEN prod ELSE sb,
                           !.convert_arg = cv],
         err |-> e1 + e2 + (IF widen THEN 1 ELSE 0)]

\* the mis-ordered variant: arguments are looked at before the sources
CmdTestArgsFirst(c) ==
    LET s3 == CmdTestStep3(c)
        s1 == CmdTestStep1(c)
    IN  IF s3.err THEN [ret |-> 3, cmd |-> s3.cmd]
        ELSE IF s1.err THEN [ret |-> 1, cmd |-> s1.cmd]
        ELSE IF CmdTestStep2(s1.cmd) THEN [ret |-> 2, cmd |-> s1.cmd]
        ELSE IF CmdTestStep4(s3.cmd).err # 0
             THEN [ret |-> 4, cmd |-> CmdTestStep4(s3.cmd).cmd]
        ELSE [ret |-> 0, cmd |-> c]

\* the variant whose step 4 reports a fix-up without storing it
CmdTestNoWriteBack(c) ==
    LET s1 == CmdTestStep1(c)
        s3 == CmdTestStep3(s1.cmd)
        s4 == CmdTestStep4(s3.cmd)
    IN  IF s1.err THEN [ret |-> 1, cmd |-> s1.cmd]
        ELSE IF CmdTestStep2(s1.cmd) THEN [ret |-> 2, cmd |-> s1.cmd]
        ELSE IF s3.err THEN [ret |-> 3, cmd |-> s3.cmd]
        ELSE IF s4.err # 0 THEN [ret |-> 4, cmd |-> s3.cmd]
        ELSE [ret |-> 0, cmd |-> s3.cmd]

\* the variant that skips the step-3 argument checks
CmdTestNoStep3(c) ==
    LET s1 == CmdTestStep1(c)
        s4 == CmdTestStep4(s1.cmd)
    IN  IF s1.err THEN [ret |-> 1, cmd |-> s1.cmd]
        ELSE IF CmdTestStep2(s1.cmd) THEN [ret |-> 2, cmd |-> s1.cmd]
        ELSE IF s4.err # 0 THEN [ret |-> 4, cmd |-> s4.cmd]
        ELSE [ret |-> 0, cmd |-> s4.cmd]

\* s626_ai_cmdtest: the value returned and the command as it is left
s626_ai_cmdtest(c) ==
    LET s1 == CmdTestStep1(c)
        s3 == CmdTestStep3(s1.cmd)
        s4 == CmdTestStep4(s3.cmd)
    IN  IF s1.err THEN [ret |-> 1, cmd |-> s1.cmd]
        ELSE IF CmdTestStep2(s1.cmd) THEN [ret |-> 2, cmd |-> s1.cmd]
        ELSE IF s3.err THEN [ret |-> 3, cmd |-> s3.cmd]
        ELSE IF s4.err # 0 THEN [ret |-> 4, cmd |-> s4.cmd]
        ELSE [ret |-> 0, cmd |-> s4.cmd]

(***************************************************************************)
(* The commands used as inputs.                                            *)
(***************************************************************************)
\* chanlist of n entries: channel i-1 with range (i-1) mod 2
DefaultChanlist(n) == [i \in 1..n |-> [chan |-> i - 1, range |-> (i - 1) % 2]]

MkCmd(ss, sa, bs, ba, cs, ca, es, ea, ps, pa, n, fl) ==
    [start_src |-> ss, start_arg |-> sa,
     scan_begin_src |-> bs, scan_begin_arg |-> ba,
     convert_src |-> cs, convert_arg |-> ca,
     scan_end_src |-> es, scan_end_arg |-> ea,
     stop_src |-> ps, stop_arg |-> pa,
     chanlist_len |-> n, chanlist |-> DefaultChanlist(n), flags |-> fl]

\* async->cmd before any command was loaded
NullCmd == MkCmd({}, 0, {}, 0, {}, 0, {}, 0, {}, 0, 0, 0)

\* digital-I/O lines used as external trigger lines by the armed commands
StartLines == {0}
ScanLines == {1}
ConvLines == {2}
\* timer intervals (ns) of the armed commands
ScanIntervals == {800000}
ConvIntervals == {400000}

\* the argument a command carries for a source
ArgsFor(src, lines, intervals) ==
    IF src = TRIG_EXT THEN lines ELSE IF src = TRIG_TIMER THEN intervals ELSE {0}

\* the commands the framework passes to s626_ai_cmd: it arms only what
\* s626_ai_cmdtest has accepted
ArmCmds ==
    {c \in {MkCmd(ss, sa, bs, ba, cs, ca, TRIG_COUNT, n, ps, pa, n, TRIG_ROUND_NEAREST) :
              ss \in {TRIG_NOW, TRIG_INT, TRIG_EXT}, sa \in StartLines,
              bs \in {TRIG_FOLLOW, TRIG_TIMER, TRIG_EXT}, ba \in ScanLines \cup ScanIntervals \cup {0},
              cs \in {TRIG_NOW, TRIG_TIMER, TRIG_EXT}, ca \in ConvLines \cup ConvIntervals \cup {0},
              ps \in {TRIG_COUNT, TRIG_NONE}, pa \in 0..MaxStop, n \in 1..MaxChan} :
        /\ c.start_arg \in ArgsFor(c.start_src, StartLines, {})
        /\ c.scan_begin_arg \in ArgsFor(c.scan_begin_src, ScanLines, ScanIntervals)
        /\ c.convert_arg \in ArgsFor(c.convert_src, ConvLines, ConvIntervals)
        /\ s626_ai_cmdtest(c).ret = 0}

(***************************************************************************)
(* Register access.  A register holding a bit mask is the set of its bits  *)
(* that are set.                                                           *)
(***************************************************************************)
\* interrupt causes of the IER / ISR registers
S626_IRQ_RPS1 == {"RPS1"}
S626_IRQ_GPIO3 == {"GPIO3"}

Counters == 0..5
DioGroups == 0..2
\* S626_INDXMASK(C), S626_OVERMASK(C), S626_EVBITS(C): bits of RDMISC2
S626_INDXMASK(C) == {IF C > 2 THEN C * 2 - 1 ELSE C * 2 + 4}
S626_OVERMASK(C) == {IF C > 2 THEN C * 2 + 5 ELSE C * 2 + 10}
S626_EVBITS(C) ==
    [src \in 0..3 |->
        CASE src = 0 -> {}
          [] src = 1 -> S626_OVERMASK(C)
          [] src = 2 -> S626_INDXMASK(C)
          [] src = 3 -> S626_OVERMASK(C) \cup S626_INDXMASK(C)]

\* s626_mc_enable / s626_mc_disable on the bits the engine uses:
\* MC1.ERPS1 (sequencer run bit) and MC2.ADC_RPS (the ADC trigger signal)
s626_mc_enable_erps1(d) == [d EXCEPT !.erps1 = TRUE]
s626_mc_disable_erps1(d) == [d EXCEPT !.erps1 = FALSE]
s626_mc_enable_adc_rps(d) == [d EXCEPT !.adc_sig = TRUE]

\* the lines of a 16-bit mask of a group
GroupLines(group, bits) == {DioGroupSize * group + b : b \in bits}
\* the 16-bit image of the lines of a group
GroupBits(group, lines) ==
    {l - DioGroupSize * group : l \in {x \in lines : x \div DioGroupSize = group}}

\* s626_dio_set_irq selects the positive edge of the line, enables its
\* interrupt and enables its edge capture.  The driver never clears the
\* edge and interrupt selections, which hold for every line whose capture
\* is enabled: the capture enable (capsel) decides whether an edge is seen.
s626_dio_set_irq(d, chan) ==
    [d EXCEPT !.capsel = @ \cup {chan}]

s626_dio_reset_irq(d, group, mask) ==
    [d EXCEPT !.capsel = @ \ GroupLines(group, mask),
              !.capflg = @ \ GroupLines(group, mask)]

s626_dio_clear_irq(d) ==
    [d EXCEPT !.capsel = {}, !.capflg = {}]

(***************************************************************************)
(* Counters.  cnt[k] holds the fields of counter k's control registers     *)
(* that the engine programs, its preload register and its captured         *)
(* overflow event.                                                         *)
(***************************************************************************)
set_enable(d, k, enab) == [d EXCEPT !.cnt[k].clkenab = enab]

reset_cap_flags(d, k) == [d EXCEPT !.cnt[k].cap = FALSE]

set_load_trig(d, k, trig) == [d EXCEPT !.cnt[k].loadsrc = trig]

\* set_mode(setup, disable_int_src = false) with the setup of s626_timer_load
set_mode_timer(d, k) ==
    [d EXCEPT !.cnt[k].encmode = "TIMER",
              !.cnt[k].loadsrc = 0,
              !.cnt[k].clkenab = S626_CLKENAB_INDEX,
              !.cnt[k].intsrc = 0,
              !.cnt[k].cap = FALSE]

s626_preload(d, k, value) == [d EXCEPT !.cnt[k].preload = value]

\* the soft index strobe loads the preload register when the load trigger
\* is the index; on an A counter whose latch source is the A index it also
\* latches the count
pulse_index(d, k) ==
    LET c == IF d.cnt[k].loadsrc = 0 THEN d.cnt[k].preload ELSE d.cnt[k].count
    IN  [d EXCEPT !.cnt[k].count = c,
                  !.cnt[k].latch = IF k < 3 /\ d.cnt[k].latchsrc = S626_LATCHSRC_A_INDXA
                                   THEN c ELSE @]

set_int_src(d, k, int_source) ==
    [d EXCEPT !.cnt[k].cap = FALSE,
              !.cnt[k].intsrc = int_source,
              !.counter_int_enabs = (@ \ S626_EVBITS(k)[3]) \cup S626_EVBITS(k)[int_source]]

s626_set_latch_source(d, k, value) == [d EXCEPT !.cnt[k].latchsrc = value]

\* the latch of a counter as s626_read_latch returns it: the latch source is
\* 0 (A and B latch on the read access) or S626_LATCHSRC_A_INDXA (the A index
\* latches A; B still latches on the read access)
s626_read_latch(d, k) ==
    IF k < 3 /\ d.cnt[k].latchsrc = S626_LATCHSRC_A_INDXA
    THEN d.cnt[k].latch ELSE d.cnt[k].count

\* s626_timer_load that moves the load trigger to the overflow before the
\* index strobe
TimerLoadTrigFirst(d, k, tick) ==
    LET d1 == set_mode_timer(d, k)
        d2 == s626_preload(d1, k, tick)
        d3 == set_load_trig(d2, k, 1)
        d4 == pulse_index(d3, k)
        d6 == set_int_src(d4, k, S626_INTSRC_OVER)
    IN  s626_set_latch_source(d6, k, S626_LATCHSRC_A_INDXA)

s626_timer_load(d, k, tick) ==
    LET d1 == set_mode_timer(d, k)
        d2 == s626_preload(d1, k, tick)
        d3 == set_load_trig(d2, k, 0)
        d4 == pulse_index(d3, k)
        d5 == set_load_trig(d4, k, 1)
        d6 == set_int_src(d5, k, S626_INTSRC_OVER)
    IN  s626_set_latch_source(d6, k, S626_LATCHSRC_A_INDXA)

(***************************************************************************)
(* The RPS program.  The program s626_reset_adc writes is kept by what     *)
(* decides its execution: whether it waits for the ADC signal at its head  *)
(* and before each conversion, the poll-list slots it digitizes, and       *)
(* whether it raises the interrupt at the end of a pass.                   *)
(***************************************************************************)
Min(S) == CHOOSE x \in S : \A y \in S : x <= y

s626_ai_load_polllist(c) ==
    [n \in 1..c.chanlist_len |->
        [chan |-> c.chanlist[n].chan,
         range5v |-> (c.chanlist[n].range = 0),
         eopl |-> (n = c.chanlist_len)]]

\* the for loop of s626_reset_adc from adc_items = items on: it ends when
\* adc_items reaches 16, or with adc_items++ and break at the first entry
\* that carries the end-of-list flag
RECURSIVE PollLoop(_, _)
PollLoop(ppl, items) ==
    IF ~(items < MaxPollList) THEN items
    ELSE IF ppl[items + 1].eopl THEN items + 1
    ELSE PollLoop(ppl, items + 1)

\* the number of slots the for loop of s626_reset_adc emits
PollItems(ppl) == PollLoop(ppl, 0)

\* s626_reset_adc that goes on writing after the previous program instead
\* of starting again at the base of the buffer
ResetAdcAppend(d, ppl) ==
    [d EXCEPT !.erps1 = FALSE,
              !.rps_pos = 0,
              !.adc_items = PollItems(ppl),
              !.rps = [head |-> d.cmd.scan_begin_src # TRIG_FOLLOW,
                       conv |-> d.cmd.convert_src # TRIG_NOW,
                       slots |-> d.rps.slots \o SubSeq(ppl, 1, PollItems(ppl)),
                       irq |-> (d.ai_cmd_running = 1)]]

\* s626_reset_adc that leaves adc_items at the index of the entry that
\* carries the end-of-list flag
ResetAdcNoAdjust(d, ppl) ==
    [d EXCEPT !.erps1 = FALSE,
              !.rps_pos = 0,
              !.adc_items = IF \E i \in 1..PollItems(ppl) : ppl[i].eopl
                            THEN PollItems(ppl) - 1 ELSE PollItems(ppl),
              !.rps = [head |-> d.cmd.scan_begin_src # TRIG_FOLLOW,
                       conv |-> d.cmd.convert_src # TRIG_NOW,
                       slots |-> SubSeq(ppl, 1, PollItems(ppl)),
                       irq |-> (d.ai_cmd_running = 1)]]

s626_reset_adc(d, ppl) ==
    [d EXCEPT !.erps1 = FALSE,
              !.rps_pos = 0,
              !.adc_items = PollItems(ppl),
              !.rps = [head |-> d.cmd.scan_begin_src # TRIG_FOLLOW,
                       conv |-> d.cmd.convert_src # TRIG_NOW,
                       slots |-> SubSeq(ppl, 1, PollItems(ppl)),
                       irq |-> (d.ai_cmd_running = 1)]]

(***************************************************************************)
(* s626_ai_cmd on the command in async->cmd: the device as it is left and  *)
(* the value returned.                                                     *)
(***************************************************************************)
AiCmdScanBegin(d) ==
    IF d.cmd.scan_begin_src = TRIG_TIMER
    THEN LET t == s626_ns_to_timer(d.cmd.scan_begin_arg, d.cmd.flags)
             d1 == [d EXCEPT !.cmd.scan_begin_arg = t.nanosec]
         IN  set_enable(s626_timer_load(d1, 5, t.ret), 5, S626_CLKENAB_ALWAYS)
    ELSE IF d.cmd.scan_begin_src = TRIG_EXT /\ d.cmd.start_src # TRIG_EXT
    THEN s626_dio_set_irq(d, d.cmd.scan_begin_arg)
    ELSE d

AiCmdConvert(d) ==
    IF d.cmd.convert_src = TRIG_TIMER
    THEN LET t == s626_ns_to_timer(d.cmd.convert_arg, d.cmd.flags)
             d1 == [d EXCEPT !.cmd.convert_arg = t.nanosec]
         IN  set_enable(s626_timer_load(d1, 4, t.ret), 4, S626_CLKENAB_INDEX)
    ELSE IF /\ d.cmd.convert_src = TRIG_EXT
            /\ d.cmd.scan_begin_src # TRIG_EXT
            /\ d.cmd.start_src = TRIG_EXT
    THEN s626_dio_set_irq(d, d.cmd.convert_arg)
    ELSE d

\* s626_ai_cmd's stop switch that counts scans in continuous mode too
AiCmdStopCounted(d) ==
    IF d.cmd.stop_src = TRIG_COUNT
    THEN [d EXCEPT !.ai_sample_count = d.cmd.stop_arg, !.ai_continuous = 0]
    ELSE IF d.cmd.stop_src = TRIG_NONE
    THEN [d EXCEPT !.ai_continuous = 0, !.ai_sample_count = 1]
    ELSE d

AiCmdStop(d) ==
    IF d.cmd.stop_src = TRIG_COUNT
    THEN [d EXCEPT !.ai_sample_count = d.cmd.stop_arg, !.ai_continuous = 0]
    ELSE IF d.cmd.stop_src = TRIG_NONE
    THEN [d EXCEPT !.ai_continuous = 1, !.ai_sample_count = 1]
    ELSE d

AiCmdStart(d) ==
    IF d.cmd.start_src = TRIG_NOW
    THEN [s626_mc_enable_erps1(d) EXCEPT !.inttrig = FALSE]
    ELSE IF d.cmd.start_src = TRIG_EXT
    THEN [s626_dio_set_irq(d, d.cmd.start_arg) EXCEPT !.inttrig = FALSE]
    ELSE IF d.cmd.start_src = TRIG_INT
    THEN [d EXCEPT !.inttrig = TRUE]
    ELSE d

\* s626_ai_cmd without the test of ai_cmd_running
AiCmdNoBusyCheck(d) ==
    LET d1 == s626_dio_clear_irq([d EXCEPT !.ier = {}, !.isr = {}])
        d2 == [d1 EXCEPT !.ai_cmd_running = 1, !.ai_convert_count = 0]
        d3 == AiCmdStop(AiCmdConvert(AiCmdScanBegin(d2)))
        d4 == AiCmdStart(s626_reset_adc(d3, s626_ai_load_polllist(d3.cmd)))
    IN  [dev |-> [d4 EXCEPT !.ier = S626_IRQ_GPIO3 \cup S626_IRQ_RPS1], ret |-> "OK"]

s626_ai_cmd(d) ==
    IF d.ai_cmd_running # 0
    THEN [dev |-> d, ret |-> "EBUSY"]
    ELSE LET d1 == s626_dio_clear_irq([d EXCEPT !.ier = {}, !.isr = {}])
             d2 == [d1 EXCEPT !.ai_cmd_running = 1, !.ai_convert_count = 0]
             d3 == AiCmdStop(AiCmdConvert(AiCmdScanBegin(d2)))
             d4 == AiCmdStart(s626_reset_adc(d3, s626_ai_load_polllist(d3.cmd)))
         IN  [dev |-> [d4 EXCEPT !.ier = S626_IRQ_GPIO3 \cup S626_IRQ_RPS1],
              ret |-> "OK"]

\* s626_ai_inttrig that accepts any trigger number
AiInttrigAnyNum(d, trignum) ==
    [dev |-> [s626_mc_enable_erps1(d) EXCEPT !.inttrig = FALSE], ret |-> "STARTED"]

\* s626_ai_inttrig that leaves the handle in place
AiInttrigKeepHandle(d, trignum) ==
    IF trignum # 0 THEN [dev |-> d, ret |-> "EINVAL"]
    ELSE [dev |-> s626_mc_enable_erps1(d), ret |-> "STARTED"]

s626_ai_inttrig(d, trignum) ==
    IF trignum # 0
    THEN [dev |-> d, ret |-> "EINVAL"]
    ELSE [dev |-> [s626_mc_enable_erps1(d) EXCEPT !.inttrig = FALSE],
          ret |-> "STARTED"]

\* s626_ai_cancel that leaves the master interrupt enabled
AiCancelKeepIer(d) ==
    [s626_mc_disable_erps1(d) EXCEPT !.ai_cmd_running = 0]

s626_ai_cancel(d) ==
    [s626_mc_disable_erps1(d) EXCEPT !.ier = {}, !.ai_cmd_running = 0]

\* the framework's do_become_nonbusy, which follows s->cancel
do_become_nonbusy(d) == [d EXCEPT !.inttrig = FALSE]

(***************************************************************************)
(* The interrupt handlers.                                                 *)
(***************************************************************************)
\* s626_handle_eos_interrupt that stops at the stop count less one
HandleEosOffByOne(d) ==
    LET d1 == [d EXCEPT !.buf_n = @ + d.cmd.chanlist_len,
                        !.ai_sample_count =
                            IF d.ai_continuous = 0 THEN @ - 1 ELSE @]
        fin == d1.ai_sample_count <= 1
        d2 == IF fin
              THEN [s626_mc_disable_erps1(d1) EXCEPT !.ai_cmd_running = 0]
              ELSE d1
        d3 == IF d2.ai_cmd_running # 0 /\ d2.cmd.scan_begin_src = TRIG_EXT
              THEN s626_dio_set_irq(d2, d2.cmd.scan_begin_arg)
              ELSE d2
    IN  [dev |-> [d3 EXCEPT !.n_eos = @ + 1,
                            !.n_eoa = IF fin THEN @ + 1 ELSE @],
         finished |-> fin]

\* s626_handle_eos_interrupt that re-arms the scan-begin line whether or not
\* the command is still running
HandleEosRearmAlways(d) ==
    LET d1 == [d EXCEPT !.buf_n = @ + d.cmd.chanlist_len,
                        !.ai_sample_count =
                            IF d.ai_continuous = 0 THEN @ - 1 ELSE @]
        fin == d1.ai_sample_count <= 0
        d2 == IF fin
              THEN [s626_mc_disable_erps1(d1) EXCEPT !.ai_cmd_running = 0]
              ELSE d1
        d3 == IF d2.cmd.scan_begin_src = TRIG_EXT
              THEN s626_dio_set_irq(d2, d2.cmd.scan_begin_arg)
              ELSE d2
    IN  [dev |-> [d3 EXCEPT !.n_eos = @ + 1,
                            !.n_eoa = IF fin THEN @ + 1 ELSE @],
         finished |-> fin]

\* s626_handle_eos_interrupt: chanlist_len samples go to the buffer, the
\* events posted are delivered by comedi_event
s626_handle_eos_interrupt(d) ==
    LET d1 == [d EXCEPT !.buf_n = @ + d.cmd.chanlist_len,
                        !.ai_sample_count =
                            IF d.ai_continuous = 0 THEN @ - 1 ELSE @]
        fin == d1.ai_sample_count <= 0
        d2 == IF fin
              THEN [s626_mc_disable_erps1(d1) EXCEPT !.ai_cmd_running = 0]
              ELSE d1
        d3 == IF d2.ai_cmd_running # 0 /\ d2.cmd.scan_begin_src = TRIG_EXT
              THEN s626_dio_set_irq(d2, d2.cmd.scan_begin_arg)
              ELSE d2
    IN  [dev |-> [d3 EXCEPT !.n_eos = @ + 1,
                            !.n_eoa = IF fin THEN @ + 1 ELSE @],
         finished |-> fin]

\* (irqbit >> (arg - 16 * group)) == 1 on the 16-bit capture flags irqbit.
\* A shift count outside 0..31 is undefined: u is the outcome then.
ShiftIsOne(irqbit, arg, group, u) ==
    LET sh == arg - DioGroupSize * group
    IN  IF arg >= 0 /\ sh >= 0 /\ sh <= 31
        THEN sh \in irqbit /\ \A b \in irqbit : b <= sh
        ELSE u

DioStartEdge(d, irqbit, group, u) ==
    IF ShiftIsOne(irqbit, d.cmd.start_arg, group, u) /\ d.cmd.start_src = TRIG_EXT
    THEN LET d1 == s626_mc_enable_erps1(d)
         IN  IF d.cmd.scan_begin_src = TRIG_EXT
             THEN s626_dio_set_irq(d1, d.cmd.scan_begin_arg)
             ELSE d1
    ELSE d

DioScanEdge(d, irqbit, group, u) ==
    IF /\ ShiftIsOne(irqbit, d.cmd.scan_begin_arg, group, u)
       /\ d.cmd.scan_begin_src = TRIG_EXT
    THEN LET d1 == s626_mc_enable_adc_rps(d)
             d2 == IF d.cmd.convert_src = TRIG_EXT
                   THEN s626_dio_set_irq(
                            [d1 EXCEPT !.ai_convert_count = d.cmd.chanlist_len],
                            d.cmd.convert_arg)
                   ELSE d1
         IN  IF d.cmd.convert_src = TRIG_TIMER
             THEN set_enable([d2 EXCEPT !.ai_convert_count = d.cmd.chanlist_len],
                             5, S626_CLKENAB_ALWAYS)
             ELSE d2
    ELSE d

DioConvertEdge(d, irqbit, group, u) ==
    IF /\ ShiftIsOne(irqbit, d.cmd.convert_arg, group, u)
       /\ d.cmd.convert_src = TRIG_EXT
    THEN LET d1 == [s626_mc_enable_adc_rps(d) EXCEPT !.ai_convert_count = @ - 1]
         IN  IF d1.ai_convert_count > 0
             THEN s626_dio_set_irq(d1, d.cmd.convert_arg)
             ELSE d1
    ELSE d

\* ub: the outcomes of the three shifts where they are undefined
s626_handle_dio_interrupt(d, irqbit, group, ub) ==
    LET d0 == s626_dio_reset_irq(d, group, irqbit)
    IN  IF d0.ai_cmd_running # 0
        THEN DioConvertEdge(
                 DioScanEdge(DioStartEdge(d0, irqbit, group, ub[1]),
                             irqbit, group, ub[2]),
                 irqbit, group, ub[3])
        ELSE d0

s626_check_dio_interrupts(d, ub) ==
    LET hit == {g \in DioGroups : GroupBits(g, d.capflg) # {}}
    IN  IF hit = {} THEN d
        ELSE s626_handle_dio_interrupt(d, GroupBits(Min(hit), d.capflg), Min(hit), ub)

\* the overflow of counter 4 (1B), the convert-pace timer
CounterInt2B(d) ==
    LET d1 == reset_cap_flags(d, 4)
    IN  IF d1.ai_convert_count > 0
        THEN LET d2 == [d1 EXCEPT !.ai_convert_count = @ - 1]
                 d3 == IF d2.ai_convert_count = 0
                       THEN set_enable(d2, 4, S626_CLKENAB_INDEX)
                       ELSE d2
             IN  IF d.cmd.convert_src = TRIG_TIMER
                 THEN s626_mc_enable_adc_rps(d3)
                 ELSE d3
        ELSE d1

\* the overflow of counter 5 (2B), the scan-pace timer
CounterInt3B(d) ==
    LET d1 == reset_cap_flags(d, 5)
        d2 == IF d.cmd.scan_begin_src = TRIG_TIMER
              THEN s626_mc_enable_adc_rps(d1)
              ELSE d1
    IN  IF d.cmd.convert_src = TRIG_TIMER
        THEN set_enable([d2 EXCEPT !.ai_convert_count = d.cmd.chanlist_len],
                        4, S626_CLKENAB_ALWAYS)
        ELSE d2

RECURSIVE ResetCaps(_, _)
ResetCaps(d, ks) ==
    IF ks = {} THEN d
    ELSE LET k == Min(ks) IN ResetCaps(reset_cap_flags(d, k), ks \ {k})

s626_check_counter_interrupts(d) ==
    LET irqbit == {k \in Counters : d.cnt[k].cap}
        d1 == ResetCaps(d, irqbit \cap {0, 1, 2, 3})
        d2 == IF 4 \in irqbit THEN CounterInt2B(d1) ELSE d1
    IN  IF 5 \in irqbit THEN CounterInt3B(d2) ELSE d2

(***************************************************************************)
(* s626_irq_handler in the three parts other contexts can fall between:    *)
(* the entry (save IER and ISR, disable the master interrupt, clear the    *)
(* interrupt), the dispatch on the interrupt type, and the exit (restore   *)
(* the interrupt enable).                                                  *)
(***************************************************************************)
IrqEnter(d) ==
    [dev |-> [d EXCEPT !.ier = {}, !.isr = @ \ d.isr],
     irqstatus |-> d.ier,
     irqtype |-> d.isr]

IrqBody(d, irqtype, irqstatus, ub) ==
    IF irqtype = S626_IRQ_RPS1
    THEN LET r == s626_handle_eos_interrupt([d EXCEPT !.irq_rps1 = @ + 1])
         IN  [dev |-> r.dev, irqstatus |-> IF r.finished THEN {} ELSE irqstatus]
    ELSE IF irqtype = S626_IRQ_GPIO3
    THEN [dev |-> s626_check_counter_interrupts(s626_check_dio_interrupts(d, ub)),
          irqstatus |-> irqstatus]
    ELSE [dev |-> d, irqstatus |-> irqstatus]

IrqExit(d, irqstatus) == [d EXCEPT !.ier = irqstatus]

s626_irq_handler(d, ub) ==
    LET e == IrqEnter(d)
        b == IrqBody(e.dev, e.irqtype, e.irqstatus, ub)
    IN  IrqExit(b.dev, b.irqstatus)

(***************************************************************************)
(* State.                                                                  *)
(*   dev   the device: the fields of struct s626_private the engine uses,  *)
(*         async->cmd and async->inttrig, the hardware registers (ier,     *)
(*         isr, the sequencer run bit erps1, the ADC signal adc_sig, the   *)
(*         digital-edge capture registers, the counters), the RPS program  *)
(*         and the sequencer's position in it, and what has been handed    *)
(*         to comedi since the command was loaded (buf_n samples, n_eos    *)
(*         and n_eoa events; irq_rps1 end-of-scan interrupts served,       *)
(*         n_trig software-trigger starts).                                *)
(*   ctx   the interrupt handler's and the cancelling thread's position    *)
(*         and the handler's locals irqstatus and irqtype.                 *)
(*   obs   the last operation, its argument and result (for a cancel: the  *)
(*         phase it found the engine in), and whether the command was      *)
(*         cancelled since it was armed.                                   *)
(*   test  the last call of s626_ai_cmdtest: the command passed, the       *)
(*         command as left, the value returned.                            *)
(***************************************************************************)
VARIABLES dev, ctx, obs, test

vars == <<dev, ctx, obs, test>>

\* a counter after s626_initialize: counter mode, interrupts disabled,
\* captures cleared, always enabled
InitCounter ==
    [encmode |-> "COUNTER", clkenab |-> S626_CLKENAB_ALWAYS, loadsrc |-> 0,
     intsrc |-> 0, latchsrc |-> 0, preload |-> 0, count |-> 0, latch |-> 0,
     cap |-> FALSE]

InitDev ==
    [ai_cmd_running |-> 0, ai_continuous |-> 0, ai_sample_count |-> 0,
     ai_convert_count |-> 0, counter_int_enabs |-> {}, adc_items |-> 0,
     cmd |-> NullCmd, inttrig |-> FALSE,
     ier |-> {}, isr |-> {}, erps1 |-> FALSE, adc_sig |-> FALSE,
     rps |-> [head |-> FALSE, conv |-> FALSE, slots |-> <<>>, irq |-> FALSE],
     rps_pos |-> 0,
     capsel |-> {}, capflg |-> {},
     cnt |-> [k \in Counters |-> InitCounter],
     buf_n |-> 0, n_eos |-> 0, n_eoa |-> 0, irq_rps1 |-> 0, n_trig |-> 0]

InitCtx == [h_pc |-> "idle", irqstatus |-> {}, irqtype |-> {}, c_pc |-> "idle",
            spinlock |-> "free"]

InitObs == [op |-> "init", ret |-> "", arg |-> 0, cancelled |-> FALSE]

InitTest == [inp |-> NullCmd, out |-> NullCmd, ret |-> 0, calls |-> 0]

Init ==
    /\ dev = InitDev
    /\ ctx = InitCtx
    /\ obs = InitObs
    /\ test = InitTest

\* the record of an operation op with argument arg and result ret
Observe(op, arg, ret, cancelled) ==
    [op |-> op, ret |-> ret, arg |-> arg, cancelled |-> cancelled]

\* where the engine stands: no command running, a command armed and waiting
\* for its start trigger, or the sequencer running for it
Phase(d) ==
    IF d.ai_cmd_running = 0 THEN "idle"
    ELSE IF d.erps1 THEN "streaming" ELSE "armed"

\* end-of-scan interrupts served per loaded command
MaxIrq == MaxStop + ExtraIrq

(***************************************************************************)
(* The framework around the driver's entry points.                         *)
(***************************************************************************)
\* do_cmd_ioctl: the command is copied to async->cmd and the buffer reset
\* before s->do_cmd is called
do_cmd_ioctl(d, c) ==
    [d EXCEPT !.cmd = c, !.buf_n = 0, !.n_eos = 0, !.n_eoa = 0, !.irq_rps1 = 0,
              !.n_trig = 0]

(***************************************************************************)
(* Caller-thread operations, each run to completion.                       *)
(***************************************************************************)
AiCmd(c) ==
    /\ ctx.c_pc = "idle"
    /\ LET d0 == IF dev.ai_cmd_running # 0 THEN dev ELSE do_cmd_ioctl(dev, c)
           r == s626_ai_cmd(d0)
       IN  /\ dev' = r.dev
           /\ obs' = Observe("cmd", 0, r.ret,
                             IF r.ret = "OK" THEN FALSE ELSE obs.cancelled)
    /\ UNCHANGED <<ctx, test>>

\* INSN_INTTRIG: the framework calls async->inttrig when it is set
AiInttrig(trignum) ==
    /\ ctx.c_pc = "idle"
    /\ IF dev.inttrig
       THEN LET r == s626_ai_inttrig(dev, trignum)
            IN  /\ dev' = [r.dev EXCEPT !.n_trig =
                                IF r.ret = "STARTED" THEN @ + 1 ELSE @]
                /\ obs' = Observe("inttrig", trignum, r.ret, obs.cancelled)
       ELSE /\ dev' = dev
            /\ obs' = Observe("inttrig", trignum, "EAGAIN", obs.cancelled)
    /\ UNCHANGED <<ctx, test>>

AiCancel ==
    /\ ctx.c_pc = "idle"
    /\ dev' = do_become_nonbusy(s626_ai_cancel(dev))
    /\ obs' = Observe("cancel", 0, Phase(dev), TRUE)
    /\ UNCHANGED <<ctx, test>>

(***************************************************************************)
(* The hardware.                                                           *)
(***************************************************************************)
\* The sequencer executes the next stretch of its program: the wait at the
\* head, or one slot's conversion; after the last slot the dummy conversion,
\* the interrupt and the jump back to the start.
SeqReady(d) ==
    /\ d.erps1
    /\ Len(d.rps.slots) > 0
    /\ (IF d.rps_pos = 0 THEN d.rps.head ELSE d.rps.conv) => d.adc_sig

SeqRun(d) ==
    LET wait == IF d.rps_pos = 0 THEN d.rps.head ELSE d.rps.conv
        last == d.rps_pos = Len(d.rps.slots)
    IN  [d EXCEPT !.adc_sig = IF wait THEN FALSE ELSE @,
                  !.rps_pos = IF last THEN 0 ELSE @ + 1,
                  !.isr = IF last /\ d.rps.irq THEN @ \cup S626_IRQ_RPS1 ELSE @]

SeqStep ==
    /\ SeqReady(dev)
    /\ dev' = SeqRun(dev)
    /\ obs' = Observe("hw", 0, "", obs.cancelled)
    /\ UNCHANGED <<ctx, test>>

\* A rising edge on a line whose capture and interrupt are enabled.
DioEdge(line) ==
    /\ line \in dev.capsel
    /\ line \notin dev.capflg
    /\ dev' = [dev EXCEPT !.capflg = @ \cup {line}, !.isr = @ \cup S626_IRQ_GPIO3]
    /\ obs' = Observe("hw", 0, "", obs.cancelled)
    /\ UNCHANGED <<ctx, test>>

\* A running timer overflows: the event is captured, the preload reloaded.
CounterOverflow(k) ==
    /\ dev.cnt[k].encmode = "TIMER"
    /\ dev.cnt[k].clkenab = S626_CLKENAB_ALWAYS
    /\ dev.cnt[k].intsrc = S626_INTSRC_OVER
    /\ ~dev.cnt[k].cap
    /\ dev' = [dev EXCEPT !.cnt[k].cap = TRUE,
                          !.cnt[k].count = IF dev.cnt[k].loadsrc = 1
                                           THEN dev.cnt[k].preload ELSE @,
                          !.isr = @ \cup S626_IRQ_GPIO3]
    /\ obs' = Observe("hw", 0, "", obs.cancelled)
    /\ UNCHANGED <<ctx, test>>

Hardware ==
    \/ SeqStep
    \/ \E line \in dev.capsel : DioEdge(line)
    \/ \E k \in Counters : CounterOverflow(k)

(***************************************************************************)
(* The interrupt.  The line is requested IRQF_SHARED and the handler does  *)
(* not test whether its device raised it, so it can run at any time.       *)
(***************************************************************************)
\* the outcomes of the undefined shifts of s626_handle_dio_interrupt that
\* the handler can meet in the state d: the three shifts are defined when
\* the captured group is group 0 and the arguments are below 32
ShiftDefined(arg, group) ==
    arg >= 0 /\ arg - DioGroupSize * group >= 0 /\ arg - DioGroupSize * group <= 31

UbChoices(d) ==
    LET hit == {g \in DioGroups : GroupBits(g, d.capflg) # {}}
    IN  IF \/ hit = {}
           \/ /\ ShiftDefined(d.cmd.start_arg, Min(hit))
              /\ ShiftDefined(d.cmd.scan_begin_arg, Min(hit))
              /\ ShiftDefined(d.cmd.convert_arg, Min(hit))
        THEN {[i \in 1..3 |-> FALSE]}
        ELSE [1..3 -> BOOLEAN]

\* the handler run to completion
Irq ==
    /\ ctx.h_pc = "idle"
    /\ dev.isr = S626_IRQ_RPS1 => dev.irq_rps1 < MaxIrq
    /\ \E ub \in UbChoices(dev) : dev' = s626_irq_handler(dev, ub)
    /\ obs' = Observe("irq", 0, "", obs.cancelled)
    /\ UNCHANGED <<ctx, test>>

\* the first command of a behaviour is any of ArmCmds; it is the command of
\* every later call of s626_ai_cmd
CmdsToArm == IF dev.cmd = NullCmd THEN ArmCmds ELSE {dev.cmd}

Next ==
    \/ \E c \in CmdsToArm : AiCmd(c)
    \/ \E t \in {0, 1} : AiInttrig(t)
    \/ AiCancel
    \/ Hardware
    \/ Irq

\* the engine with every operation and the handler run to completion
Spec == Init /\ [][Next]_vars

(***************************************************************************)
(* The engine with the interrupt handler and s626_ai_cancel as they run on *)
(* two processors: the handler in the three parts IrqEnter, IrqBody and    *)
(* IrqExit, under dev->spinlock; s626_ai_cancel one register or field      *)
(* write at a time, under no lock.                                         *)
(***************************************************************************)
HEnter ==
    /\ ctx.h_pc = "idle"
    /\ ctx.spinlock = "free"
    /\ dev.isr = S626_IRQ_RPS1 => dev.irq_rps1 < MaxIrq
    /\ LET e == IrqEnter(dev)
       IN  /\ dev' = e.dev
           /\ ctx' = [ctx EXCEPT !.h_pc = "body", !.spinlock = "irq",
                                 !.irqstatus = e.irqstatus, !.irqtype = e.irqtype]
    /\ obs' = Observe("irq", 0, "enter", obs.cancelled)
    /\ UNCHANGED test

HBody ==
    /\ ctx.h_pc = "body"
    /\ \E ub \in UbChoices(dev) :
         LET b == IrqBody(dev, ctx.irqtype, ctx.irqstatus, ub)
         IN  /\ dev' = b.dev
             /\ ctx' = [ctx EXCEPT !.h_pc = "exit", !.irqstatus = b.irqstatus]
    /\ obs' = Observe("irq", 0, "body", obs.cancelled)
    /\ UNCHANGED test

HExit ==
    /\ ctx.h_pc = "exit"
    /\ dev' = IrqExit(dev, ctx.irqstatus)
    /\ ctx' = [ctx EXCEPT !.h_pc = "idle", !.spinlock = "free",
                          !.irqstatus = {}, !.irqtype = {}]
    /\ obs' = Observe("irq", 0, "exit", obs.cancelled)
    /\ UNCHANGED test

\* s626_mc_disable(dev, S626_MC1_ERPS1, S626_P_MC1)
CancelStop ==
    /\ ctx.c_pc = "idle"
    /\ dev.cmd # NullCmd
    /\ dev' = s626_mc_disable_erps1(dev)
    /\ ctx' = [ctx EXCEPT !.c_pc = "ier"]
    /\ obs' = Observe("cancel", 0, "stop", obs.cancelled)
    /\ UNCHANGED test

\* writel(0, devpriv->mmio + S626_P_IER)
CancelIer ==
    /\ ctx.c_pc = "ier"
    /\ dev' = [dev EXCEPT !.ier = {}]
    /\ ctx' = [ctx EXCEPT !.c_pc = "flag"]
    /\ obs' = Observe("cancel", 0, "ier", obs.cancelled)
    /\ UNCHANGED test

\* devpriv->ai_cmd_running = 0, and the return to the framework
CancelFlag ==
    /\ ctx.c_pc = "flag"
    /\ dev' = do_become_nonbusy([dev EXCEPT !.ai_cmd_running = 0])
    /\ ctx' = [ctx EXCEPT !.c_pc = "idle"]
    /\ obs' = Observe("cancel", 0, "done", TRUE)
    /\ UNCHANGED test

\* the commands of the concurrent runs: started at once
ConcCmds == {c \in ArmCmds : c.start_src = TRIG_NOW}

NextConc ==
    \/ \E c \in (IF dev.cmd = NullCmd THEN ConcCmds ELSE {dev.cmd}) : AiCmd(c)
    \/ CancelStop
    \/ CancelIer
    \/ CancelFlag
    \/ HEnter
    \/ HBody
    \/ HExit
    \/ Hardware

SpecConc == Init /\ [][NextConc]_vars

(***************************************************************************)
(* s626_ai_cmdtest on the commands a caller can pass, and on the command   *)
(* it left.                                                                *)
(***************************************************************************)
TestSources ==
    [start     |-> {TRIG_NOW, TRIG_EXT, TRIG_NOW \cup TRIG_INT, TRIG_FOLLOW},
     scan      |-> {TRIG_FOLLOW, TRIG_TIMER, TRIG_EXT, TRIG_NOW},
     convert   |-> {TRIG_NOW, TRIG_TIMER, TRIG_EXT},
     scan_end  |-> {TRIG_COUNT, TRIG_NONE},
     stop      |-> {TRIG_COUNT, TRIG_NONE, TRIG_TIMER}]

TestArgs ==
    [start   |-> {0, 40},
     scan    |-> {5, 200250, 1705032704, 2000000000, 2000000001},
     convert |-> {5, 200250, 2000000000},
     stop    |-> {0, 1, 16777216}]

TestCmds ==
    {MkCmd(ss, sa, bs, ba, cs, ca, es, ea, ps, pa, n, fl) :
        ss \in TestSources.start, sa \in TestArgs.start,
        bs \in TestSources.scan, ba \in TestArgs.scan,
        cs \in TestSources.convert, ca \in TestArgs.convert,
        es \in TestSources.scan_end, ea \in {MaxChan + 1},
        ps \in TestSources.stop, pa \in TestArgs.stop,
        n \in {MaxChan, MaxChan + 1}, fl \in {TRIG_ROUND_NEAREST, TRIG_ROUND_UP}}

\* calls of s626_ai_cmdtest per command
MaxCalls == 3

\* do_cmdtest on a command of the caller
AiCmdTest ==
    /\ test.calls = 0
    /\ \E c \in TestCmds :
         LET r == s626_ai_cmdtest(c)
         IN  test' = [inp |-> c, out |-> r.cmd, ret |-> r.ret, calls |-> 1]
    /\ obs' = Observe("cmdtest", 0, "", obs.cancelled)
    /\ UNCHANGED <<dev, ctx>>

\* do_cmdtest again, on the command the last call left
AiCmdTestAgain ==
    /\ test.calls > 0
    /\ test.calls < MaxCalls
    /\ LET r == s626_ai_cmdtest(test.out)
       IN  test' = [inp |-> test.out, out |-> r.cmd, ret |-> r.ret,
                    calls |-> test.calls + 1]
    /\ obs' = Observe("cmdtest", 0, "", obs.cancelled)
    /\ UNCHANGED <<dev, ctx>>

NextTest ==
    \/ AiCmdTest
    \/ AiCmdTestAgain

SpecTest == Init /\ [][NextTest]_vars

(***************************************************************************)
(* Properties of the arm / start / stream / retire cycle.                  *)
(***************************************************************************)
\* a command counted to stop_arg scans and started at once, not cancelled
CountedNow ==
    /\ dev.cmd # NullCmd
    /\ dev.cmd.start_src = TRIG_NOW
    /\ dev.cmd.stop_src = TRIG_COUNT
    /\ dev.cmd.stop_arg >= 1
    /\ ~obs.cancelled

\* C1: after s626_ai_cmd arms a command with stop_src = TRIG_COUNT,
\* stop_arg = N >= 1 and start_src = TRIG_NOW, the k-th end-of-scan
\* interrupt has published exactly k scans (k end-of-scan events and
\* k * chanlist_len samples); the end-of-acquisition event is raised on the
\* N-th interrupt and on no earlier one; at that point the run bit is off,
\* ai_cmd_running is 0 and the interrupt-enable register is 0; before it the
\* command is still running.
C1_CountedAcquisition ==
    CountedNow =>
        LET N == dev.cmd.stop_arg
            k == dev.irq_rps1
        IN  /\ k <= N
            /\ dev.n_eos = k
            /\ dev.buf_n = k * dev.cmd.chanlist_len
            /\ dev.n_eoa = (IF k = N THEN 1 ELSE 0)
            /\ k < N => dev.ai_cmd_running = 1
            /\ k = N => /\ ~dev.erps1
                        /\ dev.ai_cmd_running = 0
                        /\ dev.ier = {}

C1_Witness ==
    /\ CountedNow
    /\ dev.cmd.stop_arg = MaxStop
    /\ dev.irq_rps1 = MaxStop
    /\ dev.n_eoa = 1
    /\ dev.buf_n = MaxStop * dev.cmd.chanlist_len
    /\ obs.op = "irq"

\* C2: once an acquisition has retired (end-of-acquisition raised,
\* ai_cmd_running = 0), the handler's service of a further end-of-scan
\* interrupt publishes no samples, raises no end-of-scan or
\* end-of-acquisition event and leaves ai_sample_count, ai_cmd_running and
\* the interrupt enable it restores as they were.
C2_RetiredEosIsNoOp ==
    [][(/\ ctx.h_pc = "body"
        /\ ctx'.h_pc = "exit"
        /\ ctx.irqtype = S626_IRQ_RPS1
        /\ dev.ai_cmd_running = 0
        /\ dev.n_eoa > 0
        /\ ~obs.cancelled)
       => /\ dev'.buf_n = dev.buf_n
          /\ dev'.n_eos = dev.n_eos
          /\ dev'.n_eoa = dev.n_eoa
          /\ dev'.ai_sample_count = dev.ai_sample_count
          /\ dev'.ai_cmd_running = dev.ai_cmd_running
          /\ ctx'.irqstatus = ctx.irqstatus]_vars

\* C3: s626_ai_cmd called while ai_cmd_running # 0 returns the busy error
\* and leaves every register, the RPS program, the driver's fields and the
\* software-trigger handle as they were.
C3_BusyArmChangesNothing ==
    [][(obs'.op = "cmd" /\ dev.ai_cmd_running # 0)
       => (obs'.ret = "EBUSY" /\ dev' = dev)]_vars

C3_Witness ==
    /\ obs.op = "cmd"
    /\ obs.ret = "EBUSY"
    /\ dev.ai_cmd_running = 1
    /\ dev.erps1

\* C4: s626_ai_cancel run without interleaving, from the armed or the
\* streaming state, leaves the run bit off, the interrupt-enable register 0
\* and ai_cmd_running 0, and they stay so until the next arm; the arm that
\* follows a cancel does not return the busy error.
C4_CancelReturnsToIdle ==
    /\ [](obs.cancelled => (/\ ~dev.erps1
                            /\ dev.ier = {}
                            /\ dev.ai_cmd_running = 0))
    /\ [][(obs.cancelled /\ obs'.op = "cmd") => obs'.ret = "OK"]_vars

C4_Witness ==
    /\ obs.op = "cancel"
    /\ obs.ret = "streaming"
    /\ ~dev.erps1
    /\ dev.ier = {}
    /\ dev.ai_cmd_running = 0

\* C5: when s626_ai_cancel runs concurrently with s626_irq_handler, in any
\* interleaving, then once both have completed the interrupt-enable
\* register is 0 and ai_cmd_running is 0.
C5_CancelWinsOverHandler ==
    (obs.cancelled /\ ctx.h_pc = "idle" /\ ctx.c_pc = "idle")
        => (dev.ier = {} /\ dev.ai_cmd_running = 0)

\* C6: with start_src = TRIG_INT the arm exposes the software-trigger handle
\* and leaves the run bit off; with TRIG_NOW or TRIG_EXT it exposes none.
\* The handle called with id 0 enables the run bit and removes the handle;
\* the software trigger enables the sequencer at most once per arm, and a
\* call after that fails and changes nothing.
C6_SoftwareTriggerOnce ==
    /\ []((obs.op = "cmd" /\ obs.ret = "OK")
            => /\ dev.inttrig <=> dev.cmd.start_src = TRIG_INT
               /\ dev.cmd.start_src = TRIG_INT => ~dev.erps1)
    /\ [](dev.inttrig => (dev.cmd.start_src = TRIG_INT /\ ~dev.erps1))
    /\ [](dev.n_trig <= 1)
    /\ [][(obs'.op = "inttrig" /\ obs'.ret = "STARTED")
            => /\ dev.inttrig
               /\ obs'.arg = 0
               /\ dev'.erps1
               /\ ~dev'.inttrig]_vars
    /\ [][(obs'.op = "inttrig" /\ dev.n_trig = 1)
            => (obs'.ret = "EAGAIN" /\ dev' = dev)]_vars

C6_Witness ==
    /\ obs.op = "inttrig"
    /\ obs.arg = 0
    /\ obs.ret = "EAGAIN"
    /\ dev.n_trig = 1
    /\ dev.cmd.start_src = TRIG_INT

\* C7: the software trigger called with an id other than 0 returns an error
\* and changes no state, the run bit and the handle included; while the
\* handle is exposed a call with id 0 starts the acquisition, so it does
\* after a call that was rejected for its id.
C7_WrongTriggerId ==
    /\ [][(obs'.op = "inttrig" /\ obs'.arg # 0)
            => /\ obs'.ret \in {"EINVAL", "EAGAIN"}
               /\ dev.inttrig => obs'.ret = "EINVAL"
               /\ dev' = dev]_vars
    /\ []((obs.op = "inttrig" /\ obs.ret = "EINVAL")
            => (dev.inttrig /\ ~dev.erps1))
    /\ [][(obs'.op = "inttrig" /\ obs'.arg = 0 /\ dev.inttrig)
            => (obs'.ret = "STARTED" /\ dev'.erps1)]_vars

C7_Witness ==
    /\ obs.op = "inttrig"
    /\ obs.arg # 0
    /\ obs.ret = "EINVAL"
    /\ dev.inttrig
    /\ ~dev.erps1
    /\ dev.n_trig = 0

(***************************************************************************)
(* Properties of s626_ai_cmdtest.  The rules of each step are stated here  *)
(* on the command as the caller supplied it.                               *)
(***************************************************************************)
\* a source mask is empty or holds a source outside the allowed ones
SourceRuleBroken(c) ==
    \/ c.start_src = {} \/ ~(c.start_src \subseteq {"NOW", "INT", "EXT"})
    \/ c.scan_begin_src = {} \/ ~(c.scan_begin_src \subseteq {"TIMER", "EXT", "FOLLOW"})
    \/ c.convert_src = {} \/ ~(c.convert_src \subseteq {"TIMER", "EXT", "NOW"})
    \/ c.scan_end_src = {} \/ ~(c.scan_end_src \subseteq {"COUNT"})
    \/ c.stop_src = {} \/ ~(c.stop_src \subseteq {"COUNT", "NONE"})

\* a source mask holds more than one source
UniqueRuleBroken(c) ==
    \E m \in {c.start_src, c.scan_begin_src, c.convert_src, c.stop_src} :
        Cardinality(m) > 1

\* an interval outside [S626_MAX_SPEED, S626_MIN_SPEED]
OutOfWindow(ns) == ULess(ns, S626_MAX_SPEED) \/ ULess(S626_MIN_SPEED, ns)

ArgRuleBroken(c) ==
    \/ c.start_src # TRIG_EXT /\ c.start_arg # 0
    \/ c.start_src = TRIG_EXT /\ ULess(MaxDioLine, c.start_arg)
    \/ c.scan_begin_src = TRIG_EXT /\ ULess(MaxDioLine, c.scan_begin_arg)
    \/ c.convert_src = TRIG_EXT /\ ULess(MaxDioLine, c.convert_arg)
    \/ c.scan_begin_src = TRIG_TIMER /\ OutOfWindow(c.scan_begin_arg)
    \/ c.convert_src = TRIG_TIMER /\ OutOfWindow(c.convert_arg)
    \/ c.scan_end_arg # c.chanlist_len
    \/ c.stop_src = TRIG_COUNT /\ ULess(MaxStopArg, c.stop_arg)
    \/ c.stop_src # TRIG_COUNT /\ c.stop_arg # 0

\* step 4 changes an argument: a timer interval that is not a whole number
\* of ticks, or a scan interval shorter than the conversions of one scan
FixupChanges(c) ==
    \/ c.scan_begin_src = TRIG_TIMER /\ c.scan_begin_arg % TimerBase # 0
    \/ c.convert_src = TRIG_TIMER /\ c.convert_arg % TimerBase # 0
    \/ /\ c.scan_begin_src = TRIG_TIMER
       /\ c.convert_src = TRIG_TIMER
       /\ ULess(c.scan_begin_arg, MulU32(c.convert_arg, c.scan_end_arg))

LowestFailingStep(c) ==
    IF SourceRuleBroken(c) THEN 1
    ELSE IF UniqueRuleBroken(c) THEN 2
    ELSE IF ArgRuleBroken(c) THEN 3
    ELSE IF FixupChanges(c) THEN 4
    ELSE 0

\* C8: s626_ai_cmdtest returns the number of the lowest step with a broken
\* rule: 1 for a source rule whatever the later rules, else 2 for a
\* uniqueness rule, else 3 for an argument rule, else 4 when the step-4
\* fix-up changes an argument, else 0.
C8_LowestFailingStep ==
    test.calls > 0 => test.ret = LowestFailingStep(test.inp)

\* a command that breaks a step-1 and a step-3 rule was answered 1
C8_Witness ==
    /\ test.calls > 0
    /\ SourceRuleBroken(test.inp)
    /\ ArgRuleBroken(test.inp)
    /\ test.ret = 1

\* C9 as stated: whenever s626_ai_cmdtest returns a non-zero step the device
\* is untouched and the command's fields are as the caller supplied them.
C9_FailureLeavesCommand ==
    (test.calls > 0 /\ test.ret # 0) => (dev = InitDev /\ test.out = test.inp)

\* the fields of a command that s626_ai_cmdtest never writes
SameRequest(a, b) ==
    /\ a.chanlist = b.chanlist
    /\ a.chanlist_len = b.chanlist_len
    /\ a.flags = b.flags

\* every source mask holds allowed sources only (it may hold none)
OnlyAllowedSources(c) ==
    /\ c.start_src \subseteq {"NOW", "INT", "EXT"}
    /\ c.scan_begin_src \subseteq {"TIMER", "EXT", "FOLLOW"}
    /\ c.convert_src \subseteq {"TIMER", "EXT", "NOW"}
    /\ c.scan_end_src \subseteq {"COUNT"}
    /\ c.stop_src \subseteq {"COUNT", "NONE"}

\* the timer intervals of c as step 4 leaves them
FixedUp(c) ==
    /\ c.convert_src = TRIG_TIMER => c.convert_arg % TimerBase = 0
    /\ c.scan_begin_src = TRIG_TIMER =>
          \/ /\ c.convert_src = TRIG_TIMER
             /\ c.scan_begin_arg = MulU32(c.convert_arg, c.scan_end_arg)
          \/ c.scan_begin_arg % TimerBase = 0

\* C9 (amended): whenever s626_ai_cmdtest returns a non-zero step the device
\* is untouched, but the command is corrected in place: a return of 1 leaves
\* each source mask cut down to its allowed sources, a return of 3 or 4
\* leaves at least one argument replaced, a return of 4 leaves each timer
\* interval a whole number of ticks or, for scan_begin_arg, the product
\* convert_arg * scan_end_arg, and only a return of 2 always leaves the
\* command as the caller supplied it.
C9_FailureCorrectsCommand ==
    (test.calls > 0 /\ test.ret # 0) =>
        /\ dev = InitDev
        /\ SameRequest(test.out, test.inp)
        /\ test.out.start_src \subseteq test.inp.start_src
        /\ test.out.scan_begin_src \subseteq test.inp.scan_begin_src
        /\ test.out.convert_src \subseteq test.inp.convert_src
        /\ test.out.scan_end_src \subseteq test.inp.scan_end_src
        /\ test.out.stop_src \subseteq test.inp.stop_src
        /\ test.ret = 1 => OnlyAllowedSources(test.out)
        /\ test.ret = 2 => test.out = test.inp
        /\ test.ret = 3 => (test.out # test.inp /\ ~ArgRuleBroken(test.out))
        /\ test.ret = 4 => FixedUp(test.out)

C9_Witness ==
    /\ test.calls > 0
    /\ test.ret = 4
    /\ test.out.scan_begin_arg # test.inp.scan_begin_arg
    /\ test.out.convert_arg = test.inp.convert_arg

\* a timer interval inside the window and a whole number of ticks
GoodInterval(ns) ==
    /\ ns >= S626_MAX_SPEED
    /\ ns <= S626_MIN_SPEED
    /\ ns % TimerBase = 0

\* C10: whenever s626_ai_cmdtest returns 0, each of start, scan-begin,
\* convert and stop has exactly one source of its allowed set; scan_end_arg
\* is chanlist_len; stop_arg is at most 0x00ffffff with TRIG_COUNT and 0
\* with TRIG_NONE; start_arg is 0 unless start_src is TRIG_EXT; every
\* external-trigger argument is a digital-I/O line (at most 39); every
\* timer interval lies in [200000, 2000000000] ns and is a multiple of
\* 500 ns.
C10_AcceptedCommand ==
    (test.calls > 0 /\ test.ret = 0) =>
        LET c == test.out
        IN  /\ c.start_src \in {TRIG_NOW, TRIG_INT, TRIG_EXT}
            /\ c.scan_begin_src \in {TRIG_TIMER, TRIG_EXT, TRIG_FOLLOW}
            /\ c.convert_src \in {TRIG_TIMER, TRIG_EXT, TRIG_NOW}
            /\ c.stop_src \in {TRIG_COUNT, TRIG_NONE}
            /\ c.scan_end_arg = c.chanlist_len
            /\ c.stop_src = TRIG_COUNT => (c.stop_arg >= 0 /\ c.stop_arg <= MaxStopArg)
            /\ c.stop_src = TRIG_NONE => c.stop_arg = 0
            /\ c.start_src # TRIG_EXT => c.start_arg = 0
            /\ c.start_src = TRIG_EXT => c.start_arg \in 0..MaxDioLine
            /\ c.scan_begin_src = TRIG_EXT => c.scan_begin_arg \in 0..MaxDioLine
            /\ c.convert_src = TRIG_EXT => c.convert_arg \in 0..MaxDioLine
            /\ c.scan_begin_src = TRIG_TIMER => GoodInterval(c.scan_begin_arg)
            /\ c.convert_src = TRIG_TIMER => GoodInterval(c.convert_arg)

C10_Witness ==
    /\ test.calls > 0
    /\ test.ret = 0
    /\ test.out.start_src = TRIG_EXT
    /\ test.out.scan_begin_src = TRIG_TIMER
    /\ test.out.convert_src = TRIG_TIMER
    /\ test.out.stop_src = TRIG_COUNT

(***************************************************************************)
(* The helpers of the engine called on their own: test holds the function  *)
(* called, its arguments and what it returned.                             *)
(***************************************************************************)
\* longest interval of the dense range of intervals
MaxNs == 1100

InitCall == [fn |-> "none", arg |-> <<>>, res |-> <<>>]

InitUnit ==
    /\ dev = InitDev
    /\ ctx = InitCtx
    /\ obs = InitObs
    /\ test = InitCall

\* the intervals passed to s626_ns_to_timer: a dense range, and the ends of
\* the window s626_ai_cmdtest lets through
NsInputs ==
    (0..MaxNs) \cup {S626_MAX_SPEED - 1, S626_MAX_SPEED, S626_MAX_SPEED + 250,
                     S626_MIN_SPEED - 1, S626_MIN_SPEED}

RoundModes == {TRIG_ROUND_NEAREST, TRIG_ROUND_DOWN, TRIG_ROUND_UP, TRIG_ROUND_UP_NEXT}

NsToTimer ==
    /\ test.fn = "none"
    /\ \E t \in NsInputs, mode \in RoundModes :
         test' = [fn |-> "s626_ns_to_timer", arg |-> <<t, mode>>,
                  res |-> s626_ns_to_timer(t, mode)]
    /\ obs' = Observe("call", 0, "", obs.cancelled)
    /\ UNCHANGED <<dev, ctx>>

NextNs == NsToTimer

SpecNs == InitUnit /\ [][NextNs]_vars

\* C11: for a requested interval t of 0 to 2000000000 ns the divider d of
\* s626_ns_to_timer is t/500 rounded by the policy: 500*d <= t < 500*(d+1)
\* for down, 500*(d-1) < t <= 500*d for up, and |500*d - t| <= 250 with the
\* tie rounded up for nearest and for any other policy; the interval written
\* back is 500*d and the value returned is d - 1.  999 gives 1000 and 1 for
\* nearest and up, 500 and 0 for down.
C11_TickRounding ==
    test.fn = "s626_ns_to_timer" =>
        LET t == test.arg[1]
            mode == test.arg[2]
            d == test.res.ret + 1
            realized == test.res.nanosec
        IN  /\ realized = TimerBase * d
            /\ d >= 0
            /\ mode = TRIG_ROUND_DOWN => (realized <= t /\ t < realized + TimerBase)
            /\ mode = TRIG_ROUND_UP => (realized >= t /\ t > realized - TimerBase)
            /\ mode \notin {TRIG_ROUND_DOWN, TRIG_ROUND_UP} =>
                 (realized - t <= 250 /\ t - realized < 250)
            /\ t = 999 => realized = (IF mode = TRIG_ROUND_DOWN THEN 500 ELSE 1000)
            /\ t = 999 => d = (IF mode = TRIG_ROUND_DOWN THEN 1 ELSE 2)

C11_Witness ==
    /\ test.fn = "s626_ns_to_timer"
    /\ test.arg = <<999, TRIG_ROUND_UP>>
    /\ test.res = [nanosec |-> 1000, ret |-> 1]

(***************************************************************************)
(* s626_ai_load_polllist called on chanlists of every length up to         *)
(* MaxList.  The caller's array is uint8_t ppl[16]; the function stores    *)
(* ppl[n] for every n below cmd->chanlist_len, so the entries of the       *)
(* result past MaxPollList are stores past the end of that array.          *)
(***************************************************************************)
MaxList == 17

\* chanlist of n entries starting at channel c0, ranges alternating from r0
ChanlistFrom(n, c0, r0) ==
    [i \in 1..n |-> [chan |-> (c0 + i - 1) % MaxPollList,
                     range |-> (r0 + i - 1) % 2]]

PollInputs ==
    {[chanlist_len |-> n, chanlist |-> ChanlistFrom(n, c0, r0)] :
        n \in 1..MaxList, c0 \in 0..(MaxPollList - 1), r0 \in 0..1}

LoadPolllist ==
    /\ test.fn = "none"
    /\ \E c \in PollInputs :
         test' = [fn |-> "s626_ai_load_polllist", arg |-> <<c>>,
                  res |-> [ppl |-> s626_ai_load_polllist(c),
                           ret |-> c.chanlist_len]]
    /\ obs' = Observe("call", 0, "", obs.cancelled)
    /\ UNCHANGED <<dev, ctx>>

NextPoll == LoadPolllist
SpecPoll == InitUnit /\ [][NextPoll]_vars

\* C12: the poll list built from a chanlist of n entries, 1 <= n <= 16, has
\* exactly n entries in the order given, each with the channel and range
\* selector of its chanlist entry and the end-of-list flag on the last entry
\* only; a chanlist of more than 16 entries is truncated to 16 entries and
\* nothing is stored past the 16th slot of the poll list.
C12_PollListBounded ==
    test.fn = "s626_ai_load_polllist" =>
        LET c   == test.arg[1]
            ppl == test.res.ppl
            n   == IF c.chanlist_len <= MaxPollList
                   THEN c.chanlist_len ELSE MaxPollList
        IN  /\ Len(ppl) = n
            /\ \A i \in 1..n :
                 /\ ppl[i].chan = c.chanlist[i].chan
                 /\ ppl[i].range5v = (c.chanlist[i].range = 0)
                 /\ (c.chanlist_len <= MaxPollList => ppl[i].eopl = (i = n))

\* the program s626_reset_adc builds on a device just initialised and armed
\* for command c: a reference that depends on the poll list and the trigger
\* sources of c alone
RpsFor(c) ==
    s626_reset_adc([InitDev EXCEPT !.cmd = c, !.ai_cmd_running = 1],
                   s626_ai_load_polllist(c)).rps

\* C13: the sequencer program is the same whenever it is compiled for the
\* same poll list and trigger sources: after every arm, and for as long as
\* the command stays loaded, it is the program a fresh device compiles for
\* that command, whatever acquisition completed or was cancelled before.
C13_CompileIdempotent ==
    dev.cmd # NullCmd =>
        /\ dev.rps = RpsFor(dev.cmd)
        /\ dev.adc_items = Len(dev.rps.slots)

\* an arm that follows an earlier acquisition of the same command which was
\* cancelled after the interrupt handler had raised the ADC signal
C13_Witness ==
    /\ obs.op = "cmd" /\ obs.ret = "OK"
    /\ dev.adc_sig
    /\ dev.rps = RpsFor(dev.cmd)

(***************************************************************************)
(* The counter control registers at field level.  Each counter pair p has  *)
(* one CRA and one CRB register (my_cra, my_crb of s626_enc_chan_info:     *)
(* counters k and k+3 name the same two registers); cr is the record of    *)
(* the fields of both.  A standardized setup is the record of the fields   *)
(* the S626_GET_STD_ and S626_SET_STD_ macros extract and place.  The      *)
(* INTCTRL bits of CRB are commands, not state, and are left out.          *)
(* s626_debi_replace(addr, mask, wdata) keeps the fields in mask and       *)
(* takes the others from wdata.                                            *)
(***************************************************************************)
S626_ENCMODE_COUNTER == 0
S626_ENCMODE_TIMER == 2
S626_ENCMODE_EXTENDER == 3
S626_CLKMULT_1X == 2
S626_CLKMULT_SPECIAL == 3
S626_INDXSRC_SOFT == 2

\* the two bits of a count source: CntSrc<1> selects the system clock,
\* CntSrc<0> is the count direction
S626_CNTSRC_ENCODER == [sysclk |-> FALSE, dir |-> 0]
S626_CNTSRC_SYSCLK(dir) == [sysclk |-> TRUE, dir |-> dir]

\* the registers of a pair after reset
InitCr ==
    [loadsrc_a |-> 0, indxsrc_a |-> 0, intsrc_a |-> 0, indxpol_a |-> 0,
     cntsrc_a |-> S626_CNTSRC_ENCODER, clkpol_a |-> 0, clkmult_a |-> 0,
     indxsrc_b |-> 0, cntsrc_b |-> S626_CNTSRC_ENCODER,
     clkenab_a |-> 0, latchsrc |-> 0, intsrc_b |-> 0, loadsrc_b |-> 0,
     indxpol_b |-> 0, clkenab_b |-> 0, clkpol_b |-> 0, clkmult_b |-> 0]

s626_get_mode_a(cr) ==
    LET timer == cr.cntsrc_a.sysclk
    IN  [loadsrc |-> cr.loadsrc_a, latchsrc |-> cr.latchsrc,
         intsrc |-> cr.intsrc_a, indxsrc |-> cr.indxsrc_a,
         indxpol |-> cr.indxpol_a, clkenab |-> cr.clkenab_a,
         encmode |-> IF timer THEN S626_ENCMODE_TIMER ELSE S626_ENCMODE_COUNTER,
         clkpol |-> IF timer THEN cr.cntsrc_a.dir ELSE cr.clkpol_a,
         clkmult |-> IF timer \/ cr.clkmult_a = S626_CLKMULT_SPECIAL
                     THEN S626_CLKMULT_1X ELSE cr.clkmult_a]

s626_get_mode_b(cr) ==
    LET extender == cr.clkmult_b = S626_CLKMULT_SPECIAL
        timer == cr.cntsrc_b.sysclk
    IN  [loadsrc |-> cr.loadsrc_b, latchsrc |-> cr.latchsrc,
         intsrc |-> cr.intsrc_b, indxsrc |-> cr.indxsrc_b,
         indxpol |-> cr.indxpol_b, clkenab |-> cr.clkenab_b,
         encmode |-> IF extender THEN S626_ENCMODE_EXTENDER
                     ELSE IF timer THEN S626_ENCMODE_TIMER
                     ELSE S626_ENCMODE_COUNTER,
         clkpol |-> IF extender \/ timer THEN cr.cntsrc_b.dir ELSE cr.clkpol_b,
         clkmult |-> IF extender \/ timer THEN S626_CLKMULT_1X
                     ELSE cr.clkmult_b]

\* s626_set_mode_a that also writes the latch source of the setup
SetModeAWritesLatchSrc(cr, setup, disable_int_src) ==
    LET timer == setup.encmode \in {S626_ENCMODE_EXTENDER, S626_ENCMODE_TIMER}
    IN  [cr EXCEPT
           !.loadsrc_a = setup.loadsrc,
           !.indxsrc_a = setup.indxsrc,
           !.latchsrc = setup.latchsrc,
           !.clkenab_a = setup.clkenab,
           !.intsrc_a = IF disable_int_src THEN 0 ELSE setup.intsrc,
           !.cntsrc_a = IF timer THEN S626_CNTSRC_SYSCLK(setup.clkpol)
                        ELSE S626_CNTSRC_ENCODER,
           !.clkpol_a = IF timer THEN 1 ELSE setup.clkpol,
           !.clkmult_a = IF timer \/ setup.clkmult = S626_CLKMULT_SPECIAL
                         THEN S626_CLKMULT_1X ELSE setup.clkmult,
           !.indxpol_a = IF setup.indxsrc # S626_INDXSRC_SOFT
                         THEN setup.indxpol ELSE 0]

s626_set_mode_a(cr, setup, disable_int_src) ==
    LET timer == setup.encmode \in {S626_ENCMODE_EXTENDER, S626_ENCMODE_TIMER}
    IN  [cr EXCEPT
           !.loadsrc_a = setup.loadsrc,
           !.indxsrc_a = setup.indxsrc,
           !.clkenab_a = setup.clkenab,
           !.intsrc_a = IF disable_int_src THEN 0 ELSE setup.intsrc,
           !.cntsrc_a = IF timer THEN S626_CNTSRC_SYSCLK(setup.clkpol)
                        ELSE S626_CNTSRC_ENCODER,
           !.clkpol_a = IF timer THEN 1 ELSE setup.clkpol,
           !.clkmult_a = IF timer \/ setup.clkmult = S626_CLKMULT_SPECIAL
                         THEN S626_CLKMULT_1X ELSE setup.clkmult,
           !.indxpol_a = IF setup.indxsrc # S626_INDXSRC_SOFT
                         THEN setup.indxpol ELSE 0]

s626_set_mode_b(cr, setup, disable_int_src) ==
    LET timer == setup.encmode = S626_ENCMODE_TIMER
        extender == setup.encmode = S626_ENCMODE_EXTENDER
    IN  [cr EXCEPT
           !.indxsrc_b = setup.indxsrc,
           !.clkenab_b = setup.clkenab,
           !.loadsrc_b = setup.loadsrc,
           !.intsrc_b = IF disable_int_src THEN 0 ELSE setup.intsrc,
           !.cntsrc_b = IF timer \/ extender THEN S626_CNTSRC_SYSCLK(setup.clkpol)
                        ELSE S626_CNTSRC_ENCODER,
           !.clkpol_b = IF timer \/ extender THEN 1 ELSE setup.clkpol,
           !.clkmult_b = IF extender THEN S626_CLKMULT_SPECIAL
                         ELSE IF timer \/ setup.clkmult = S626_CLKMULT_SPECIAL
                         THEN S626_CLKMULT_1X ELSE setup.clkmult,
           !.indxpol_b = IF setup.indxsrc # S626_INDXSRC_SOFT
                         THEN setup.indxpol ELSE 0]

\* s626_set_latch_source on the CRB of the pair
SetLatchSrc(cr, value) == [cr EXCEPT !.latchsrc = value]

\* k->set_mode and k->get_mode of s626_enc_chan_info[k]
IsB(k) == k >= 3
set_mode(cr, k, setup, disable_int_src) ==
    IF IsB(k) THEN s626_set_mode_b(cr, setup, disable_int_src)
    ELSE s626_set_mode_a(cr, setup, disable_int_src)
get_mode(cr, k) == IF IsB(k) THEN s626_get_mode_b(cr) ELSE s626_get_mode_a(cr)

\* largest value of the fields that are only passed through
MaxField == 1

StdSetups ==
    [loadsrc : 0..MaxField, latchsrc : 0..MaxField, intsrc : 0..MaxField,
     indxsrc : 0..3, indxpol : 0..1, clkenab : 0..1, clkmult : 0..3,
     clkpol : 0..1,
     encmode : {S626_ENCMODE_COUNTER, S626_ENCMODE_TIMER, S626_ENCMODE_EXTENDER}]

\* on the registers left by s626_set_latch_source(k, prior): set_mode with
\* the interrupt source not suppressed, then get_mode
SetGetMode ==
    /\ test.fn = "none"
    /\ \E k \in Counters, setup \in StdSetups, prior \in 0..MaxField :
         test' = [fn |-> "set_mode", arg |-> <<k, setup, prior>>,
                  res |-> get_mode(set_mode(SetLatchSrc(InitCr, prior),
                                            k, setup, FALSE), k)]
    /\ obs' = Observe("call", 0, "", obs.cancelled)
    /\ UNCHANGED <<dev, ctx>>

NextMode == SetGetMode
SpecMode == InitUnit /\ [][NextMode]_vars

\* C14: for each counter and every standardized mode, set_mode (interrupt
\* source not suppressed) followed by get_mode returns the fields that were
\* set, except that an illegal clock multiplier reads back as 1x and that a
\* B counter in Extender mode reports a synthesized clock polarity and
\* multiplier.
C14_RoundTrip ==
    test.fn = "set_mode" =>
        LET k == test.arg[1]
            setup == test.arg[2]
            res == test.res
            synth == IsB(k) /\ setup.encmode = S626_ENCMODE_EXTENDER
        IN  /\ res.loadsrc = setup.loadsrc
            /\ res.latchsrc = setup.latchsrc
            /\ res.intsrc = setup.intsrc
            /\ res.indxsrc = setup.indxsrc
            /\ res.indxpol = setup.indxpol
            /\ res.clkenab = setup.clkenab
            /\ res.encmode = setup.encmode
            /\ ~synth => res.clkpol = setup.clkpol
            /\ ~synth => res.clkmult = (IF setup.clkmult = S626_CLKMULT_SPECIAL
                                        THEN S626_CLKMULT_1X ELSE setup.clkmult)

\* C14 (amended): set_mode followed by get_mode returns the load source,
\* interrupt source, index source, clock enable and clock polarity that were
\* set; the latch source is the one s626_set_latch_source programmed before;
\* the index polarity reads back 0 when the index source is software; the
\* multiplier is the one set in Counter mode when legal and 1x otherwise;
\* the encoding mode is the one set, except Extender on an A counter, which
\* reads back Timer.
C14_RoundTripProgrammable ==
    test.fn = "set_mode" =>
        LET k == test.arg[1]
            setup == test.arg[2]
            prior == test.arg[3]
            res == test.res
        IN  /\ res.loadsrc = setup.loadsrc
            /\ res.intsrc = setup.intsrc
            /\ res.indxsrc = setup.indxsrc
            /\ res.clkenab = setup.clkenab
            /\ res.clkpol = setup.clkpol
            /\ res.latchsrc = prior
            /\ res.indxpol = (IF setup.indxsrc = S626_INDXSRC_SOFT
                              THEN 0 ELSE setup.indxpol)
            /\ res.clkmult = (IF /\ setup.encmode = S626_ENCMODE_COUNTER
                                 /\ setup.clkmult # S626_CLKMULT_SPECIAL
                              THEN setup.clkmult ELSE S626_CLKMULT_1X)
            /\ res.encmode = (IF ~IsB(k) /\ setup.encmode = S626_ENCMODE_EXTENDER
                              THEN S626_ENCMODE_TIMER ELSE setup.encmode)

\* a B counter set to Extender mode with an upward count and a latch source
\* other than the one programmed, read back
C14_Witness ==
    /\ test.fn = "set_mode"
    /\ test.arg[1] = 5
    /\ test.arg[2].encmode = S626_ENCMODE_EXTENDER
    /\ test.arg[2].clkpol = 1
    /\ test.arg[2].latchsrc # test.arg[3]
    /\ test.res.encmode = S626_ENCMODE_EXTENDER
    /\ test.res.clkpol = 1
    /\ test.res.latchsrc = test.arg[3]

(***************************************************************************)
(* s626_timer_load followed by s626_read_latch on the same counter, with   *)
(* no clock tick of the timer between the two.  s626_ai_cmd loads the      *)
(* counters 5 (scan pace) and 4 (convert pace) only; the counter may hold  *)
(* the count of an earlier load.                                           *)
(***************************************************************************)
MaxTick == 40

\* the tick an interval of S626_MAX_SPEED ns gives, and the ones after it
TickInputs == {S626_MAX_SPEED \div TimerBase - 1 + i : i \in 0..MaxTick}

TimerLoadReadLatch ==
    /\ test.fn = "none"
    /\ \E k \in {4, 5}, tick \in TickInputs, before \in {0} \cup TickInputs :
         LET d0 == IF before = 0 THEN InitDev
                   ELSE s626_timer_load(InitDev, k, before)
         IN  test' = [fn |-> "s626_timer_load", arg |-> <<k, tick, before>>,
                      res |-> s626_read_latch(s626_timer_load(d0, k, tick), k)]
    /\ obs' = Observe("call", 0, "", obs.cancelled)
    /\ UNCHANGED <<dev, ctx>>

NextTimer == TimerLoadReadLatch
SpecTimer == InitUnit /\ [][NextTimer]_vars

MaxRuns == 2

CrbFields == {"clkenab_a", "latchsrc", "intsrc_b", "loadsrc_b", "indxpol_b",
              "clkenab_b", "clkpol_b", "clkmult_b"}

\* the write of s626_debi_replace: the fields of the register addressed are
\* taken from new, the other register is untouched
DebiWrite(cr, reg, new) ==
    [f \in DOMAIN cr |->
        IF (f \in CrbFields) = (reg = "crb") THEN new[f] ELSE cr[f]]

\* setup of s626_enc_insn_config and of s626_timer_load
ConfigSetup ==
    [loadsrc |-> 0, latchsrc |-> 0, intsrc |-> 0,
     indxsrc |-> S626_INDXSRC_SOFT, indxpol |-> 0,
     clkenab |-> S626_CLKENAB_INDEX, clkmult |-> S626_CLKMULT_1X, clkpol |-> 1,
     encmode |-> S626_ENCMODE_COUNTER]
TimerSetup == [ConfigSetup EXCEPT !.encmode = S626_ENCMODE_TIMER]

\* the replaces of s626_enc_insn_config on the A counter of the pair: the
\* register addressed and the value computed from the value read
CallerOps == <<"set_mode_cra", "set_mode_crb", "set_latch_source", "set_enable">>
\* the replaces of s626_check_counter_interrupts on the B counter
HandlerOps == <<"reset_cap_flags", "set_enable">>

OpReg(op) == IF op = "set_mode_cra" THEN "cra" ELSE "crb"

CallerNew(op, val) ==
    IF op \in {"set_mode_cra", "set_mode_crb"}
    THEN s626_set_mode_a(val, ConfigSetup, TRUE)
    ELSE IF op = "set_latch_source" THEN SetLatchSrc(val, 0)
    ELSE [val EXCEPT !.clkenab_a = S626_CLKENAB_ALWAYS]

HandlerNew(op, val, enab) ==
    IF op = "set_enable" THEN [val EXCEPT !.clkenab_b = enab] ELSE val

\* the pair with its B counter loaded as the convert timer
InitRmw ==
    /\ dev = InitDev /\ ctx = InitCtx /\ obs = InitObs
    /\ test = [cr |-> SetLatchSrc(s626_set_mode_b(InitCr, TimerSetup, FALSE),
                                  S626_LATCHSRC_A_INDXA),
               c_pc |-> 0, c_rd |-> FALSE, c_val |-> InitCr,
               h_pc |-> 0, h_rd |-> FALSE, h_val |-> InitCr,
               enab |-> S626_CLKENAB_INDEX, runs |-> 0]

EncInsnConfig ==
    /\ test.c_pc = 0
    /\ test' = [test EXCEPT !.c_pc = 1]
    /\ UNCHANGED <<dev, ctx, obs>>

CallerRead ==
    /\ test.c_pc \in 1..Len(CallerOps) /\ ~test.c_rd
    /\ test' = [test EXCEPT !.c_rd = TRUE, !.c_val = test.cr]
    /\ UNCHANGED <<dev, ctx, obs>>

CallerWrite ==
    /\ test.c_pc \in 1..Len(CallerOps) /\ test.c_rd
    /\ LET op == CallerOps[test.c_pc]
       IN  test' = [test EXCEPT
                      !.cr = DebiWrite(@, OpReg(op), CallerNew(op, test.c_val)),
                      !.c_rd = FALSE, !.c_pc = @ + 1]
    /\ UNCHANGED <<dev, ctx, obs>>

\* the counter overflow interrupt: the handler resets the capture flag and
\* sets the enable of the B counter
CounterIrq ==
    /\ test.h_pc \in {0, Len(HandlerOps) + 1}
    /\ test.runs < MaxRuns
    /\ \E e \in {S626_CLKENAB_ALWAYS, S626_CLKENAB_INDEX} :
         test' = [test EXCEPT !.h_pc = 1, !.enab = e, !.runs = @ + 1]
    /\ UNCHANGED <<dev, ctx, obs>>

HandlerRead ==
    /\ test.h_pc \in 1..Len(HandlerOps) /\ ~test.h_rd
    /\ test' = [test EXCEPT !.h_rd = TRUE, !.h_val = test.cr]
    /\ UNCHANGED <<dev, ctx, obs>>

HandlerWrite ==
    /\ test.h_pc \in 1..Len(HandlerOps) /\ test.h_rd
    /\ LET op == HandlerOps[test.h_pc]
       IN  test' = [test EXCEPT
                      !.cr = DebiWrite(@, "crb", HandlerNew(op, test.h_val, test.enab)),
                      !.h_rd = FALSE, !.h_pc = @ + 1]
    /\ UNCHANGED <<dev, ctx, obs>>

NextRmw ==
    \/ EncInsnConfig
    \/ CallerRead
    \/ CallerWrite
    \/ CounterIrq
    \/ HandlerRead
    \/ HandlerWrite

SpecRmw == InitRmw /\ [][NextRmw]_vars

\* C16: the read-modify-writes of the caller thread on one counter and of
\* the handler on its sibling are serialised: once s626_enc_insn_config on
\* the A counter and the handler's update of the B counter have both
\* finished, the registers hold what each of them wrote (no update lost).
C16_NoLostUpdate ==
    (test.c_pc = Len(CallerOps) + 1 /\ test.h_pc = Len(HandlerOps) + 1) =>
        /\ test.cr.clkenab_b = test.enab
        /\ test.cr.clkenab_a = S626_CLKENAB_ALWAYS
        /\ test.cr.latchsrc = 0

(***************************************************************************)
(* s626_debi_transfer, poll by poll, inside a counter operation: the last  *)
(* s626_debi_replace of s626_enc_insn_config (k->set_enable), after which  *)
(* the operation returns insn->n.  A replace is two transfers (the read    *)
(* and the write); a transfer polls MC2 for the upload and then PSR for    *)
(* the end of the transfer, each at most timeout times.  The hardware may  *)
(* signal during a wait or never.                                          *)
(*   test.pc      "idle", "upload" (first loop), "busy" (second loop),     *)
(*                "done"                                                   *)
(*   test.xfer    the transfer at hand, test.i the loop counter            *)
(*   test.ready   the bit polled shows completion                          *)
(*   test.errors  timeouts logged by comedi_error                          *)
(*   test.after   a register was accessed after a timeout                  *)
(*   test.ret     what the operation returned                              *)
(***************************************************************************)
timeout == 10000

\* transfers of one s626_debi_replace
ReplaceTransfers == 2

InitDebi ==
    /\ dev = InitDev /\ ctx = InitCtx /\ obs = InitObs
    /\ test = [pc |-> "idle", xfer |-> 0, i |-> 0, ready |-> FALSE,
               errors |-> 0, after |-> FALSE, ret |-> ""]

\* the i++ of the polling loops
PollNextStuck(i) == i

PollNext(i) == i + 1

\* one more register access: noted once a timeout has been logged
Access(t) == [t EXCEPT !.after = @ \/ t.errors > 0]

\* writel of the command to DEBICMD and s626_mc_enable(S626_MC2_UPLD_DEBI)
DebiStart ==
    /\ test.pc = "idle"
    /\ test' = [test EXCEPT !.pc = "upload", !.xfer = 1, !.i = 0]
    /\ UNCHANGED <<dev, ctx, obs>>

\* an iteration of the first loop, or the test that follows it
PollUpload ==
    /\ test.pc = "upload"
    /\ test' = IF test.i < timeout
               THEN IF test.ready
                    THEN [Access(test) EXCEPT !.pc = "busy", !.i = 0,
                                              !.ready = FALSE]
                    ELSE [Access(test) EXCEPT !.i = PollNext(@)]
               ELSE [test EXCEPT !.errors = @ + 1, !.pc = "busy", !.i = 0,
                                 !.ready = FALSE]
    /\ UNCHANGED <<dev, ctx, obs>>

\* an iteration of the second loop, or the test that follows it and the
\* return to s626_debi_replace, which goes on with its write transfer or
\* returns to the operation, which returns insn->n
PollBusy ==
    /\ test.pc = "busy"
    /\ LET t == IF test.i < timeout THEN Access(test)
                ELSE [test EXCEPT !.errors = @ + 1]
           next == IF t.xfer < ReplaceTransfers
                   THEN [Access(t) EXCEPT !.pc = "upload", !.xfer = @ + 1,
                                          !.i = 0, !.ready = FALSE]
                   ELSE [t EXCEPT !.pc = "done", !.ret = "OK", !.ready = FALSE]
       IN  test' = IF test.i < timeout /\ ~test.ready
                   THEN [t EXCEPT !.i = PollNext(@)]
                   ELSE next
    /\ UNCHANGED <<dev, ctx, obs>>

\* the hardware completes the upload or the transfer waited for
DebiSignal ==
    /\ test.pc \in {"upload", "busy"}
    /\ ~test.ready
    /\ test' = [test EXCEPT !.ready = TRUE]
    /\ UNCHANGED <<dev, ctx, obs>>

DebiThread ==
    \/ DebiStart
    \/ PollUpload
    \/ PollBusy

NextDebi ==
    \/ DebiThread
    \/ DebiSignal

\* the thread that runs the operation keeps running; the hardware owes
\* nothing
SpecDebi == InitDebi /\ [][NextDebi]_vars /\ WF_vars(DebiThread)

\* C17: a transfer that times out aborts the operation and fails it: no
\* register is accessed after the timeout and the operation does not
\* return success.
C17_TimeoutAborts ==
    test.errors > 0 => (~test.after /\ test.ret # "OK")

\* C18: the operation terminates whatever the hardware does: each wait is a
\* poll that gives up after timeout iterations.
C18_Terminates == <>(test.pc = "done")

\* the operation finished although the hardware never signalled
C18_Witness ==
    /\ test.pc = "done"
    /\ test.errors = 2 * ReplaceTransfers

(***************************************************************************)
(* One acquisition with fair hardware: a command with start_src TRIG_NOW   *)
(* and a stop count of at least one is armed once and neither cancelled    *)
(* nor armed again.  The sequencer runs whenever it can, an enabled timer  *)
(* keeps overflowing, an armed line keeps receiving edges and every        *)
(* interrupt is served.                                                    *)
(***************************************************************************)
LiveCmds ==
    {c \in ArmCmds : /\ c.start_src = TRIG_NOW
                     /\ c.stop_src = TRIG_COUNT
                     /\ c.stop_arg >= 1}

LiveArm ==
    /\ dev.cmd = NullCmd
    /\ \E c \in LiveCmds : AiCmd(c)

NextLive ==
    \/ LiveArm
    \/ Hardware
    \/ Irq

SpecLive ==
    /\ Init
    /\ [][NextLive]_vars
    /\ WF_vars(SeqStep)
    /\ WF_vars(Irq)
    /\ \A line \in StartLines \cup ScanLines \cup ConvLines : WF_vars(DioEdge(line))
    /\ \A k \in Counters : WF_vars(CounterOverflow(k))

\* C19: every accepted command with start_src TRIG_NOW and a finite stop
\* count, once armed, eventually completes and raises end-of-acquisition
\* when the hardware is fair; the sequencer never waits forever for a
\* trigger nothing issues.
C19_EventuallyCompletes == (dev.ai_cmd_running = 1) ~> (dev.n_eoa > 0)

\* C20: once a scan-begin edge has been served for a command with
\* convert_src TRIG_TIMER (conversions of the scan are outstanding), the
\* convert-pace timer that s626_ai_cmd loaded, counter 4, is always-on.
C20_ScanEdgeStartsConvertTimer ==
    (/\ dev.ai_cmd_running = 1
     /\ dev.cmd.scan_begin_src = TRIG_EXT
     /\ dev.cmd.convert_src = TRIG_TIMER
     /\ dev.ai_convert_count > 0)
        => dev.cnt[4].clkenab = S626_CLKENAB_ALWAYS

(***************************************************************************)
(* The handler's GPIO3 branch while no command is running.                 *)
(***************************************************************************)
\* C21: while no command is running (ai_cmd_running = 0), serving an
\* interrupt of the GPIO3 cause (digital edge or counter overflow) never
\* enables the sequencer run bit, never raises the ADC trigger signal, never
\* re-enables a pacing counter and never changes ai_convert_count.
C21_IdleGpioInert ==
    [][(/\ obs'.op = "irq"
        /\ dev.ai_cmd_running = 0
        /\ dev.isr = S626_IRQ_GPIO3)
       => /\ dev'.erps1 = dev.erps1
          /\ dev'.adc_sig = dev.adc_sig
          /\ dev'.ai_convert_count = dev.ai_convert_count
          /\ \A k \in {4, 5} : dev'.cnt[k].clkenab = dev.cnt[k].clkenab]_vars

(***************************************************************************)
(* Timer-paced scans and conversions.                                      *)
(***************************************************************************)
\* The pacing timers in time.  One step of time is PaceStep ticks of the
\* 2 MHz timer clock; a counter in timer mode that is always-enabled counts
\* down and, past 0, overflows: it reloads its preload and captures the
\* event.  The handler serves a pending interrupt before the second step of
\* time after it was raised (test.late: one step has passed already).
PaceStep == 400

PaceCmds ==
    {c \in ArmCmds : /\ c.start_src = TRIG_NOW
                     /\ c.scan_begin_src = TRIG_TIMER
                     /\ c.convert_src = TRIG_TIMER}

InitPace ==
    /\ dev = InitDev
    /\ ctx = InitCtx
    /\ obs = InitObs
    /\ test = [late |-> FALSE]

PaceArm ==
    /\ dev.cmd = NullCmd
    /\ \E c \in PaceCmds : AiCmd(c)

PaceRunning(d, k) ==
    d.cnt[k].encmode = "TIMER" /\ d.cnt[k].clkenab = S626_CLKENAB_ALWAYS

PaceOverflows(d) ==
    {k \in Counters : PaceRunning(d, k) /\ d.cnt[k].count < PaceStep}

PaceTick ==
    /\ dev.cmd # NullCmd
    /\ dev.isr = {} \/ ~test.late
    /\ \A k \in PaceOverflows(dev) : ~dev.cnt[k].cap
    /\ LET over == {k \in PaceOverflows(dev) : dev.cnt[k].intsrc = S626_INTSRC_OVER}
       IN  dev' = [dev EXCEPT
                     !.cnt = [k \in Counters |->
                                IF ~PaceRunning(dev, k) THEN dev.cnt[k]
                                ELSE IF k \in PaceOverflows(dev)
                                THEN [dev.cnt[k] EXCEPT
                                        !.count = dev.cnt[k].preload,
                                        !.cap = k \in over]
                                ELSE [dev.cnt[k] EXCEPT !.count = @ - PaceStep]],
                     !.isr = IF over # {} THEN @ \cup S626_IRQ_GPIO3 ELSE @]
    /\ test' = [late |-> dev.isr # {}]
    /\ obs' = Observe("hw", 0, "", obs.cancelled)
    /\ UNCHANGED ctx

PaceIrq ==
    /\ dev.isr # {}
    /\ dev.isr = S626_IRQ_RPS1 => dev.irq_rps1 < MaxIrq
    /\ \E ub \in UbChoices(dev) : dev' = s626_irq_handler(dev, ub)
    /\ obs' = Observe("irq", 0, "", obs.cancelled)
    /\ test' = [late |-> FALSE]
    /\ UNCHANGED ctx

NextPace ==
    \/ PaceArm
    \/ PaceTick
    \/ SeqStep
    \/ PaceIrq

SpecPace == InitPace /\ [][NextPace]_vars

\* C22: for a running command with scan_begin_src and convert_src both
\* TRIG_TIMER, serving a scan-timer overflow (counter 5) raises the ADC
\* trigger, sets ai_convert_count = chanlist_len and switches the convert
\* timer (counter 4) to always-enabled; serving a convert-timer overflow
\* with conversions outstanding raises the ADC trigger and decrements the
\* count, and switches the timer back to index-gated when the count reaches
\* 0; and a scan-timer overflow is served only after all chanlist_len
\* convert triggers of the scan before it were issued, so that each scan
\* overflow is followed by exactly chanlist_len convert triggers.
C22_TimerPacedScan ==
    [][(/\ obs'.op = "irq"
        /\ dev.ai_cmd_running = 1
        /\ dev.isr = S626_IRQ_GPIO3
        /\ dev.cmd.scan_begin_src = TRIG_TIMER
        /\ dev.cmd.convert_src = TRIG_TIMER)
       => /\ dev.cnt[5].cap
                => /\ dev'.adc_sig
                   /\ dev'.ai_convert_count = dev.cmd.chanlist_len
                   /\ dev'.cnt[4].clkenab = S626_CLKENAB_ALWAYS
                   /\ dev.ai_convert_count = IF dev.cnt[4].cap THEN 1 ELSE 0
          /\ (dev.cnt[4].cap /\ ~dev.cnt[5].cap /\ dev.ai_convert_count > 0)
                => /\ dev'.adc_sig
                   /\ dev'.ai_convert_count = dev.ai_convert_count - 1
                   /\ dev'.ai_convert_count = 0
                        => dev'.cnt[4].clkenab = S626_CLKENAB_INDEX
          /\ (dev.ai_convert_count = 0 /\ ~dev.cnt[5].cap)
                => ~dev.cnt[4].cap /\ UNCHANGED dev.adc_sig]_vars

(***************************************************************************)
(* Externally paced scans and conversions.                                 *)
(***************************************************************************)
\* C23: for a running command with scan_begin_src and convert_src both
\* TRIG_EXT, serving a scan-begin edge sets ai_convert_count = chanlist_len
\* and arms the convert line; serving a convert edge raises the ADC trigger,
\* decrements the count and re-arms the convert line only while the count is
\* still above 0; nothing else changes the count, and a scan-begin edge is
\* served only when the count is 0, so that between two scan-begin edges
\* exactly chanlist_len convert edges are accepted and the convert line is
\* unarmed after the last one.
C23_ExtPacedScan ==
    [][(/\ obs'.op = "irq"
        /\ dev.ai_cmd_running = 1
        /\ dev.erps1
        /\ dev.cmd.scan_begin_src = TRIG_EXT
        /\ dev.cmd.convert_src = TRIG_EXT)
       => IF dev.isr = S626_IRQ_GPIO3 /\ dev.cmd.scan_begin_arg \in dev.capflg
          THEN /\ dev.ai_convert_count = 0
               /\ dev'.ai_convert_count = dev.cmd.chanlist_len
               /\ dev.cmd.convert_arg \in dev'.capsel
          ELSE IF dev.isr = S626_IRQ_GPIO3 /\ dev.cmd.convert_arg \in dev.capflg
          THEN /\ dev'.adc_sig
               /\ dev'.ai_convert_count = dev.ai_convert_count - 1
               /\ dev'.ai_convert_count >= 0
               /\ dev.cmd.convert_arg \in dev'.capsel <=> dev'.ai_convert_count > 0
          ELSE dev'.ai_convert_count = dev.ai_convert_count]_vars

\* C24: in every reachable state, for every accepted trigger-source
\* combination and any order of start, scan-begin, convert and
\* counter-overflow interrupts, ai_convert_count is not negative.
C24_ConvertCountNonNegative == dev.ai_convert_count >= 0

(***************************************************************************)
(* The external start trigger.                                             *)
(***************************************************************************)
\* Commands whose start line lies in the third group of digital lines
\* (lines 32..39) while their other lines lie in the first: serving an edge
\* captured in the first group shifts the capture flags by start_arg, more
\* than 31 places.
WideStartLines == {34}

WideCmds ==
    {c \in {[a EXCEPT !.start_arg = l] : a \in ArmCmds, l \in WideStartLines} :
        c.start_src = TRIG_EXT /\ s626_ai_cmdtest(c).ret = 0}

WideArm ==
    /\ dev.cmd = NullCmd
    /\ \E c \in WideCmds : AiCmd(c)

NextWide ==
    \/ WideArm
    \/ Hardware
    \/ Irq

SpecWide == Init /\ [][NextWide]_vars

\* C25: with start_src TRIG_EXT, arm arms the start line and leaves the
\* sequencer run bit off and, for scan_begin_src TRIG_EXT, the scan-begin
\* line unarmed; the run bit of a running command goes on only in a handler
\* step that serves a captured edge of the start line, and that step arms
\* the scan-begin line when scan_begin_src is TRIG_EXT; until then the
\* scan-begin line stays unarmed, so no scan-begin edge is accepted before
\* the start edge.
C25_ExtStart ==
    [][dev'.cmd.start_src = TRIG_EXT
       => /\ (obs'.op = "cmd" /\ obs'.ret = "OK")
                => /\ dev'.cmd.start_arg \in dev'.capsel
                   /\ ~dev'.erps1
          /\ (~dev.erps1 /\ dev'.erps1)
                => /\ obs'.op = "irq"
                   /\ dev.ai_cmd_running = 1
                   /\ dev.isr = S626_IRQ_GPIO3
                   /\ dev.cmd.start_arg \in dev.capflg
                   /\ dev.cmd.scan_begin_src = TRIG_EXT
                        => dev.cmd.scan_begin_arg \in dev'.capsel
          /\ (/\ dev'.ai_cmd_running = 1
              /\ ~dev'.erps1
              /\ dev'.cmd.scan_begin_src = TRIG_EXT)
                => dev'.cmd.scan_begin_arg \notin dev'.capsel]_vars

(***************************************************************************)
(* Continuous acquisition.                                                 *)
(***************************************************************************)
\* C26: while a command with stop_src TRIG_NONE is running, serving an
\* end-of-scan interrupt publishes one scan (chanlist_len samples and one
\* end-of-scan event) and leaves ai_sample_count, the end-of-acquisition
\* count, ai_cmd_running and the sequencer run bit as they were; only
\* s626_ai_cancel ends the command or stops the sequencer.
C26_ContinuousNeverRetires ==
    [][(dev.cmd.stop_src = TRIG_NONE /\ dev.ai_cmd_running = 1)
       => /\ (obs'.op = "irq" /\ dev.isr = S626_IRQ_RPS1)
                => /\ dev'.n_eos = dev.n_eos + 1
                   /\ dev'.buf_n = dev.buf_n + dev.cmd.chanlist_len
                   /\ dev'.ai_sample_count = dev.ai_sample_count
                   /\ dev'.erps1 = dev.erps1
          /\ dev'.n_eoa = 0
          /\ dev'.ai_cmd_running # 1 => obs'.op = "cancel"
          /\ (dev.erps1 /\ ~dev'.erps1) => obs'.op = "cancel"]_vars

C26_Witness ==
    /\ obs.op = "irq"
    /\ dev.cmd.stop_src = TRIG_NONE
    /\ dev.ai_cmd_running = 1
    /\ dev.erps1
    /\ dev.n_eos = MaxIrq
    /\ dev.buf_n = MaxIrq * dev.cmd.chanlist_len
    /\ dev.cmd.chanlist_len = MaxChan

\* C27: serving an end-of-scan interrupt for a command with scan_begin_src
\* TRIG_EXT arms the scan-begin line if and only if ai_cmd_running is still
\* set after the stop-count check; the end-of-scan that retires the
\* acquisition, and one served after the command ended, leave the armed
\* lines as they were.
C27_RearmIffRunning ==
    [][(/\ obs'.op = "irq"
        /\ dev.isr = S626_IRQ_RPS1
        /\ dev.cmd.scan_begin_src = TRIG_EXT)
       => dev'.capsel = IF dev'.ai_cmd_running # 0
                        THEN dev.capsel \cup {dev.cmd.scan_begin_arg}
                        ELSE dev.capsel]_vars

C27_Witness ==
    /\ obs.op = "irq"
    /\ dev.cmd.scan_begin_src = TRIG_EXT
    /\ dev.cmd.stop_arg = MaxStop
    /\ dev.n_eos = MaxStop
    /\ dev.n_eoa = 1
    /\ dev.ai_cmd_running = 0
    /\ dev.cmd.scan_begin_arg \notin dev.capsel

(***************************************************************************)
(* The sample buffer.  test.slot[k] tells which stretch of the program     *)
(* last stored to word k of the buffer (by: the index of the poll-list     *)
(* entry, or adc_items for the dummy conversion; -1: never stored) and in  *)
(* which pass of the program; test.pass is the pass being executed;        *)
(* test.read holds the words the handler last copied to the application    *)
(* and test.of the last pass completed when it copied them.                *)
(***************************************************************************)
\* passes of the program followed
MaxPass == MaxIrq + 1

InitBuf ==
    /\ dev = InitDev
    /\ ctx = InitCtx
    /\ obs = InitObs
    /\ test = [slot |-> [k \in 0..MaxPollList |-> [by |-> -1, pass |-> 0]],
               pass |-> 1, read |-> <<>>, of |-> 0]

\* the words the stretch at position pos of the program stores: entry
\* pos - 1 (counted from 0) stores to word pos - 1; the dummy conversion,
\* which follows the last entry, stores to word adc_items
RpsStores(d, pos) ==
    IF pos = 0 THEN {}
    ELSE {[word |-> pos - 1, by |-> pos - 1]}
            \cup IF pos = Len(d.rps.slots)
                 THEN {[word |-> d.adc_items, by |-> d.adc_items]}
                 ELSE {}

\* the handler's copy loop: chanlist_len words starting at word 1
EosRead(c, slot) ==
    [i \in 1..c.chanlist_len |->
        [word |-> i, by |-> slot[i].by, pass |-> slot[i].pass]]

\* the commands of LiveCmds and the same with one channel more
BufCmds ==
    {c \in {[a EXCEPT !.chanlist_len = n, !.scan_end_arg = n,
                      !.chanlist = DefaultChanlist(n)] :
                a \in LiveCmds, n \in 1..(MaxChan + 1)} :
        s626_ai_cmdtest(c).ret = 0}

BufArm ==
    /\ dev.cmd = NullCmd
    /\ \E c \in BufCmds : AiCmd(c)

BufSeqStep ==
    /\ SeqReady(dev)
    /\ test.pass <= MaxPass
    /\ dev' = SeqRun(dev)
    /\ LET st == RpsStores(dev, dev.rps_pos)
       IN  test' = [test EXCEPT
                      !.slot = [k \in 0..MaxPollList |->
                                  IF \E w \in st : w.word = k
                                  THEN [by |-> (CHOOSE w \in st : w.word = k).by,
                                        pass |-> test.pass]
                                  ELSE test.slot[k]],
                      !.pass = IF dev.rps_pos = Len(dev.rps.slots)
                               THEN @ + 1 ELSE @]
    /\ obs' = Observe("hw", 0, "", obs.cancelled)
    /\ UNCHANGED ctx

BufIrq ==
    /\ dev.isr # {}
    /\ dev.isr = S626_IRQ_RPS1 => dev.irq_rps1 < MaxIrq
    /\ \E ub \in UbChoices(dev) : dev' = s626_irq_handler(dev, ub)
    /\ test' = IF dev.isr = S626_IRQ_RPS1
               THEN [test EXCEPT !.read = EosRead(dev.cmd, test.slot),
                                 !.of = test.pass - 1]
               ELSE test
    /\ obs' = Observe("irq", 0, "", obs.cancelled)
    /\ UNCHANGED ctx

NextBuf ==
    \/ BufArm
    \/ BufSeqStep
    \/ \E line \in dev.capsel : DioEdge(line)
    \/ \E k \in Counters : CounterOverflow(k)
    \/ BufIrq

SpecBuf == InitBuf /\ [][NextBuf]_vars

\* C28: the words the end-of-scan handler copies are words 1..chanlist_len
\* of the sample buffer in order; word k was stored by the stretch of entry
\* k of the program, word adc_items by the dummy conversion, with adc_items
\* = chanlist_len; and every word copied was stored during the scan whose
\* end the handler serves.
C28_ReadsWhatTheScanStored ==
    test.of > 0
        => /\ dev.adc_items = dev.cmd.chanlist_len
           /\ Len(test.read) = dev.cmd.chanlist_len
           /\ \A i \in 1..Len(test.read) :
                /\ test.read[i].word = i
                /\ test.read[i].by = i
                /\ test.read[i].pass = test.of

(***************************************************************************)
(* s626_reset_adc on poll lists of 16 entries of which none, one or two    *)
(* carry the end-of-list flag.                                             *)
(***************************************************************************)
AdcFlagged ==
    {{}} \cup {{a, b} : a \in 1..MaxPollList, b \in 1..MaxPollList}

AdcLists ==
    {[i \in 1..MaxPollList |->
        [chan |-> i - 1, range5v |-> (i % 2 = 0), eopl |-> (i \in F)]] :
        F \in AdcFlagged}

ResetAdc ==
    /\ test.fn = "none"
    /\ \E ppl \in AdcLists :
         /\ dev' = s626_reset_adc(dev, ppl)
         /\ test' = [fn |-> "s626_reset_adc", arg |-> <<ppl>>, res |-> <<>>]
    /\ obs' = Observe("call", 0, "", obs.cancelled)
    /\ UNCHANGED ctx

SpecAdc == InitUnit /\ [][ResetAdc]_vars

\* C29: s626_reset_adc emits the entries of the poll list up to and
\* including the first one that carries the end-of-list flag, or 16 entries
\* when none of the first 16 carries it; adc_items is then the number of
\* entries emitted and lies in 1..16.
C29_AdcItemsCountsEmitted ==
    test.fn = "s626_reset_adc"
        => LET ppl == test.arg[1]
               n == Len(dev.rps.slots)
           IN  /\ dev.adc_items = n
               /\ n \in 1..MaxPollList
               /\ dev.rps.slots = SubSeq(ppl, 1, n)
               /\ \A i \in 1..(n - 1) : ~ppl[i].eopl
               /\ n < MaxPollList => ppl[n].eopl

C29_Witness ==
    /\ test.fn = "s626_reset_adc"
    /\ \A i \in 1..MaxPollList : ~test.arg[1][i].eopl
    /\ dev.adc_items = MaxPollList
    /\ Len(dev.rps.slots) = MaxPollList

(***************************************************************************)
(* The RPS program word by word.  A word is an instruction word (op) or    *)
(* the operand word of the two-word instructions LDREG, STREG and JUMP     *)
(* (op "DATA", value v).  Word i of the program lies at the physical       *)
(* address rps_buf.physical_base + 4 * i.                                  *)
(***************************************************************************)
\* rps_buf.physical_base
RpsPhysBase == 4096
\* jumps of one settling delay, and NOPs before the dummy conversion
SettleJumps == 2
SettleNops == 2

RpsOp(op) == <<[op |-> op, v |-> 0]>>
RpsOp2(op, v) == <<[op |-> op, v |-> 0], [op |-> "DATA", v |-> v]>>

\* the settling delay whose jumps each target their own address
RECURSIVE SettleDelaySelf(_, _, _)
SettleDelaySelf(rps, jmp_adrs, i) ==
    IF ~(i < SettleJumps) THEN rps
    ELSE SettleDelaySelf(rps \o RpsOp2("JUMP", jmp_adrs), jmp_adrs + 8, i + 1)

\* the settling delay appended to the words rps: jmp_adrs += 8, then
\* RPS_JUMP and jmp_adrs
RECURSIVE SettleDelay(_, _, _)
SettleDelay(rps, jmp_adrs, i) ==
    IF ~(i < SettleJumps) THEN rps
    ELSE SettleDelay(rps \o RpsOp2("JUMP", jmp_adrs + 8), jmp_adrs + 8, i + 1)

\* the ADC start pulse, the wait for the ADC and the store of the capture
\* to word items of the sample buffer
RpsConvert(items) ==
    RpsOp2("LDREG", "GPIO1_LO") \o RpsOp("NOP") \o RpsOp2("LDREG", "GPIO1_HI")
        \o RpsOp("PAUSE_GPIO2") \o RpsOp2("STREG", <<"ana_buf", 4 * items>>)

\* a DEBI write of the value v to the register reg through the shadow RAM
RpsDebiWrite(reg, v) ==
    RpsOp2("LDREG", reg) \o RpsOp2("LDREG", v)
        \o RpsOp("CLRSIGNAL_DEBI") \o RpsOp("UPLOAD_DEBI") \o RpsOp("PAUSE_DEBI")

\* the loop body that waits for the ADC signal whatever convert_src is
RpsSlotAlwaysWaits(rps, c, e, items) ==
    LET r1 == rps \o RpsDebiWrite("GSEL", <<e.chan, e.range5v>>)
                  \o RpsDebiWrite("ISEL", <<e.chan, e.range5v>>)
        r2 == SettleDelay(r1, RpsPhysBase + 4 * Len(r1), 0)
    IN  r2 \o RpsOp("PAUSE_SIGADC") \o RpsOp("CLRSIGNAL_SIGADC")
           \o RpsConvert(items)

\* one iteration of the for loop: the words rps with the stretch of the
\* poll-list entry e, emitted when adc_items = items
RpsSlot(rps, c, e, items) ==
    LET r1 == rps \o RpsDebiWrite("GSEL", <<e.chan, e.range5v>>)
                  \o RpsDebiWrite("ISEL", <<e.chan, e.range5v>>)
        r2 == SettleDelay(r1, RpsPhysBase + 4 * Len(r1), 0)
        r3 == IF c.convert_src # TRIG_NOW
              THEN r2 \o RpsOp("PAUSE_SIGADC") \o RpsOp("CLRSIGNAL_SIGADC")
              ELSE r2
    IN  r3 \o RpsConvert(items)

RECURSIVE RpsSlots(_, _, _, _)
RpsSlots(rps, c, ppl, items) ==
    IF ~(items < PollItems(ppl)) THEN rps
    ELSE RpsSlots(RpsSlot(rps, c, ppl[items + 1], items), c, ppl, items + 1)

\* the program with the interrupt raised before the dummy conversion
RpsProgramIrqEarly(c, ppl, running) ==
    LET head == IF c.scan_begin_src # TRIG_FOLLOW
                THEN RpsOp("PAUSE_SIGADC") \o RpsOp("CLRSIGNAL_SIGADC")
                ELSE <<>>
        r1 == RpsSlots(head \o RpsDebiWrite("GSEL", "BIPOLAR5V"), c, ppl, 0)
        r2 == r1 \o [n \in 1..SettleNops |-> RpsOp("NOP")[1]]
        r3 == IF running = 1 THEN r2 \o RpsOp("IRQ") ELSE r2
    IN  r3 \o RpsConvert(PollItems(ppl)) \o RpsOp2("JUMP", RpsPhysBase)

\* the words s626_reset_adc writes for the command c and the poll list ppl
\* when ai_cmd_running = running
RpsProgram(c, ppl, running) ==
    LET head == IF c.scan_begin_src # TRIG_FOLLOW
                THEN RpsOp("PAUSE_SIGADC") \o RpsOp("CLRSIGNAL_SIGADC")
                ELSE <<>>
        r1 == RpsSlots(head \o RpsDebiWrite("GSEL", "BIPOLAR5V"), c, ppl, 0)
        r2 == r1 \o [n \in 1..SettleNops |-> RpsOp("NOP")[1]]
                 \o RpsConvert(PollItems(ppl))
        r3 == IF running = 1 THEN r2 \o RpsOp("IRQ") ELSE r2
    IN  r3 \o RpsOp2("JUMP", RpsPhysBase)

RpsInstrLen(w) == IF w.op \in {"LDREG", "STREG", "JUMP"} THEN 2 ELSE 1

\* the word indices at which the instructions of prog start, from word i on
RECURSIVE RpsInstrs(_, _)
RpsInstrs(prog, i) ==
    IF i >= Len(prog) THEN <<>>
    ELSE <<i>> \o RpsInstrs(prog, i + RpsInstrLen(prog[i + 1]))

RpsCompile ==
    /\ test.fn = "none"
    /\ \E c \in ArmCmds, running \in {0, 1} :
         test' = [fn |-> "rps", arg |-> <<c, running>>,
                  res |-> [prog |-> RpsProgram(c, s626_ai_load_polllist(c), running),
                           pc |-> 0, seen |-> <<>>, done |-> FALSE]]
    /\ obs' = Observe("call", 0, "", obs.cancelled)
    /\ UNCHANGED <<dev, ctx>>

\* the sequencer executes the instruction at word pc, every wait passing;
\* RPS_JUMP continues at the word its operand addresses
RpsExec ==
    /\ test.fn = "rps"
    /\ ~test.res.done
    /\ Len(test.res.seen) <= Len(test.res.prog)
    /\ test.res.pc \in 0..(Len(test.res.prog) - 1)
    /\ LET w == test.res.prog[test.res.pc + 1]
           next == IF w.op = "JUMP"
                   THEN (test.res.prog[test.res.pc + 2].v - RpsPhysBase) \div 4
                   ELSE test.res.pc + RpsInstrLen(w)
       IN  test' = [test EXCEPT !.res.seen = Append(@, test.res.pc),
                                !.res.pc = next,
                                !.res.done = (next = 0)]
    /\ obs' = Observe("hw", 0, "", obs.cancelled)
    /\ UNCHANGED <<dev, ctx>>

NextRps ==
    \/ RpsCompile
    \/ RpsExec

SpecRps == InitUnit /\ [][NextRps]_vars

\* C30: in every program s626_reset_adc builds, each settling-delay jump
\* addresses the instruction that follows it and the last instruction is a
\* jump to the physical base of the program; a pass from word 0 executes
\* the instructions in the order they were emitted, each once, and then
\* continues at word 0.
C30_PassRunsEveryInstructionOnce ==
    test.fn = "rps"
        => LET prog == test.res.prog
               all == RpsInstrs(prog, 0)
               seen == test.res.seen
           IN  /\ prog[Len(prog) - 1].op = "JUMP"
               /\ prog[Len(prog)].v = RpsPhysBase
               /\ \A i \in 1..(Len(prog) - 2) :
                    prog[i].op = "JUMP"
                        => prog[i + 1].v = RpsPhysBase + 4 * (i + 1)
               /\ Len(seen) <= Len(all)
               /\ seen = SubSeq(all, 1, Len(seen))
               /\ test.res.done <=> (seen = all)
               /\ ~test.res.done => test.res.pc = all[Len(seen) + 1]

C30_Witness ==
    /\ test.fn = "rps"
    /\ test.res.done
    /\ test.res.pc = 0
    /\ test.arg[1].chanlist_len = MaxChan
    /\ test.arg[1].convert_src # TRIG_NOW
    /\ test.arg[2] = 1
    /\ Len(test.res.seen) > MaxChan * (SettleJumps + 4)

\* C31: the program waits for the ADC signal (pause, then clear) at its
\* head if and only if scan_begin_src is not TRIG_FOLLOW and before an
\* entry's conversion pulse if and only if convert_src is not TRIG_NOW; the
\* pulse of the dummy conversion, the last one, is never preceded by a wait;
\* so the program holds, and one pass executes, [scan_begin_src # FOLLOW] +
\* adc_items * [convert_src # NOW] such waits.
C31_WaitsPerPass ==
    test.fn = "rps"
        => LET prog == test.res.prog
               c == test.arg[1]
               items == PollItems(s626_ai_load_polllist(c))
               h == IF c.scan_begin_src # TRIG_FOLLOW THEN 1 ELSE 0
               v == IF c.convert_src # TRIG_NOW THEN 1 ELSE 0
               waits == {i \in 1..Len(prog) : prog[i].op = "PAUSE_SIGADC"}
               pulses == {i \in 1..(Len(prog) - 1) :
                            prog[i].op = "LDREG" /\ prog[i + 1].v = "GPIO1_LO"}
               taken == {j \in 1..Len(test.res.seen) :
                            test.res.seen[j] + 1 \in waits}
           IN  /\ (1 \in waits) <=> (h = 1)
               /\ \A i \in waits : prog[i + 1].op = "CLRSIGNAL_SIGADC"
               /\ Cardinality(pulses) = items + 1
               /\ \A p \in pulses :
                    (p - 2 \in waits)
                        <=> (v = 1 /\ \E q \in pulses : q > p)
               /\ Cardinality(waits) = h + items * v
               /\ test.res.done => Cardinality(taken) = h + items * v

C31_Witness ==
    /\ test.fn = "rps"
    /\ test.res.done
    /\ test.arg[1].scan_begin_src # TRIG_FOLLOW
    /\ test.arg[1].convert_src # TRIG_NOW
    /\ test.arg[1].chanlist_len = MaxChan
    /\ Cardinality({i \in 1..Len(test.res.prog) :
                        test.res.prog[i].op = "PAUSE_SIGADC"}) = MaxChan + 1

\* C32: s626_ai_cmd compiles its program with ai_cmd_running already 1, and
\* a program compiled with ai_cmd_running = 1 holds the raise-interrupt
\* instruction exactly once, right after the two words of the dummy
\* conversion's store and right before the final jump to the program's
\* start, so that one pass raises exactly one end-of-scan interrupt.
C32_OneIrqPerPass ==
    (test.fn = "rps" /\ test.arg[2] = 1)
        => LET prog == test.res.prog
               len == Len(prog)
               irqs == {i \in 1..len : prog[i].op = "IRQ"}
               raised == {j \in 1..Len(test.res.seen) :
                            test.res.seen[j] + 1 \in irqs}
           IN  /\ s626_ai_cmd([InitDev EXCEPT !.cmd = test.arg[1]]).dev.rps.irq
               /\ irqs = {len - 2}
               /\ prog[len - 4].op = "STREG"
               /\ prog[len - 3].v
                    = <<"ana_buf",
                        4 * PollItems(s626_ai_load_polllist(test.arg[1]))>>
               /\ prog[len - 1] = RpsOp2("JUMP", RpsPhysBase)[1]
               /\ prog[len].v = RpsPhysBase
               /\ test.res.done => Cardinality(raised) = 1

C32_Witness ==
    /\ test.fn = "rps"
    /\ test.arg[2] = 1
    /\ test.res.done
    /\ \E j \in 1..Len(test.res.seen) :
         test.res.prog[test.res.seen[j] + 1].op = "IRQ"

(***************************************************************************)
(* s626_ai_cmdtest fed with the command it left, as a caller does that     *)
(* retries with the corrected command until it is accepted.  test.arg is   *)
(* the sequence of the commands passed, followed by the one the last call  *)
(* left; test.res is the sequence of the values returned.                  *)
(***************************************************************************)
FixArgs ==
    [scan    |-> {5, 200250, 2000000000, 2000000001},
     convert |-> {5, 200250, 1000000000, 2000000000},
     stop    |-> {0, 16777216}]

\* commands whose trigger sources pass steps 1 and 2
FixCmds ==
    {MkCmd(TRIG_NOW, 0, bs, ba, cs, ca, TRIG_COUNT, MaxChan + 1, ps, pa, n, fl) :
        bs \in {TRIG_TIMER, TRIG_EXT, TRIG_FOLLOW}, ba \in FixArgs.scan,
        cs \in {TRIG_TIMER, TRIG_EXT, TRIG_NOW}, ca \in FixArgs.convert,
        ps \in {TRIG_COUNT, TRIG_NONE}, pa \in FixArgs.stop,
        n \in 1..(MaxChan + 1), fl \in {TRIG_ROUND_NEAREST, TRIG_ROUND_UP}}

FixFirst ==
    /\ test.fn = "none"
    /\ \E c \in FixCmds :
         LET r == s626_ai_cmdtest(c)
         IN  test' = [fn |-> "cmdtest", arg |-> <<c, r.cmd>>, res |-> <<r.ret>>]
    /\ obs' = Observe("cmdtest", 0, "", obs.cancelled)
    /\ UNCHANGED <<dev, ctx>>

FixAgain ==
    /\ test.fn = "cmdtest"
    /\ Len(test.res) < MaxCalls
    /\ LET r == s626_ai_cmdtest(test.arg[Len(test.arg)])
       IN  test' = [test EXCEPT !.arg = Append(@, r.cmd),
                                !.res = Append(@, r.ret)]
    /\ obs' = Observe("cmdtest", 0, "", obs.cancelled)
    /\ UNCHANGED <<dev, ctx>>

NextFix ==
    \/ FixFirst
    \/ FixAgain

SpecFix == InitUnit /\ [][NextFix]_vars

\* C33: feeding s626_ai_cmdtest the command it corrected converges: a call
\* that returned 0 left the command unchanged and is followed only by
\* returns of 0; the call that follows a return of 4 does not return 3
\* (the widened scan_begin_arg passes step 3); and no command that was
\* rejected is ever passed a second time, which would repeat for ever.
C33_CmdTestConverges ==
    test.fn = "cmdtest"
        => LET n == Len(test.res)
           IN  /\ \A j \in 1..n :
                    test.res[j] = 0
                        => /\ test.arg[j + 1] = test.arg[j]
                           /\ j < n => test.res[j + 1] = 0
               /\ \A j \in 1..(n - 1) : test.res[j] = 4 => test.res[j + 1] # 3
               /\ \A j \in 1..n : \A k \in (j + 1)..(n + 1) :
                    test.arg[k] = test.arg[j] => test.res[j] = 0

\* C34: a command with both timers that s626_ai_cmdtest accepts has
\* scan_begin_arg >= convert_arg * scan_end_arg as mathematical integers,
\* that is convert_arg <= scan_begin_arg div scan_end_arg.
C34_ScanCoversConversions ==
    (/\ test.fn = "cmdtest"
     /\ test.res[Len(test.res)] = 0
     /\ test.arg[Len(test.arg)].scan_begin_src = TRIG_TIMER
     /\ test.arg[Len(test.arg)].convert_src = TRIG_TIMER)
        => LET c == test.arg[Len(test.arg)]
           IN  c.convert_arg <= c.scan_begin_arg \div c.scan_end_arg

(***************************************************************************)
(* The counter operations at the level of the register writes.  The state  *)
(* of a counter pair is the record of its CRA and CRB fields (cr), the     *)
(* counters of the pair whose event capture flags are set (cap), the       *)
(* MISC2 interrupt enable mask devpriv->counter_int_enabs of all six       *)
(* counters (enabs), and the register writes of the last operation (wr),   *)
(* each with the register, the fields of the pair after the write, the     *)
(* INTCTRL command bits written and, for a preload register, the value.    *)
(***************************************************************************)
S626_CNTDIR_DOWN == 1

\* the fields of CRA and of CRB, after the S626_CRAMSK_ and S626_CRBMSK_
\* masks the operations name
CraFields ==
    {"loadsrc_a", "indxsrc_a", "intsrc_a", "indxpol_a", "cntsrc_a",
     "clkpol_a", "clkmult_a", "indxsrc_b", "cntsrc_b"}
RegFields(reg) == IF reg = "CRA" THEN CraFields ELSE CrbFields

\* s626_debi_write of an image to CRA or CRB: the fields of the register
\* are taken from the image; INTRESETCMD with INTRESET_A / INTRESET_B
\* (cmd) clears the capture flags of the counter
DebiWriteCr(st, reg, image, cmd) ==
    LET cr2 == [f \in DOMAIN st.cr |->
                  IF f \in RegFields(reg) THEN image[f] ELSE st.cr[f]]
    IN  [st EXCEPT !.cr = cr2,
                   !.cap = @ \ cmd,
                   !.wr = Append(@, [reg |-> reg, cr |-> cr2, cmd |-> cmd,
                                     val |-> 0])]

\* s626_debi_replace(addr, mask, wdata): the fields in the mask (keep) stay,
\* the others are taken from wdata, zero where wdata does not set them
DebiReplaceCr(st, reg, keep, wdata, cmd) ==
    LET image == [f \in DOMAIN st.cr |->
                    IF f \in keep THEN st.cr[f]
                    ELSE IF f \in DOMAIN wdata THEN wdata[f]
                    ELSE IF f \in {"cntsrc_a", "cntsrc_b"}
                         THEN S626_CNTSRC_ENCODER ELSE 0]
    IN  DebiWriteCr(st, reg, image, cmd)

s626_reset_cap_flags_a(st) == DebiReplaceCr(st, "CRB", CrbFields, <<>>, {"A"})
s626_reset_cap_flags_b(st) == DebiReplaceCr(st, "CRB", CrbFields, <<>>, {"B"})

\* set_enable that keeps nothing of CRB but the field it writes
SetEnableAClearsCrb(st, enab) ==
    DebiReplaceCr(st, "CRB", {}, [clkenab_a |-> enab], {})

s626_set_enable_a(st, enab) ==
    DebiReplaceCr(st, "CRB", CrbFields \ {"clkenab_a"}, [clkenab_a |-> enab], {})
s626_set_enable_b(st, enab) ==
    DebiReplaceCr(st, "CRB", CrbFields \ {"clkenab_b"}, [clkenab_b |-> enab], {})

s626_set_load_trig_a(st, trig) ==
    DebiReplaceCr(st, "CRA", CraFields \ {"loadsrc_a"}, [loadsrc_a |-> trig], {})
s626_set_load_trig_b(st, trig) ==
    DebiReplaceCr(st, "CRB", CrbFields \ {"loadsrc_b"}, [loadsrc_b |-> trig], {})

s626_set_int_src_a(st, k, int_source) ==
    LET s1 == DebiReplaceCr(st, "CRB", CrbFields, <<>>, {"A"})
        s2 == DebiReplaceCr(s1, "CRA", CraFields \ {"intsrc_a"},
                            [intsrc_a |-> int_source], {})
    IN  [s2 EXCEPT !.enabs = (@ \ S626_EVBITS(k)[3])
                                \cup S626_EVBITS(k)[int_source]]

s626_set_int_src_b(st, k, int_source) ==
    LET crb == st.cr
        s1 == DebiWriteCr(st, "CRB", crb, {"B"})
        s2 == DebiWriteCr(s1, "CRB", [crb EXCEPT !.intsrc_b = int_source], {})
    IN  [s2 EXCEPT !.enabs = (@ \ S626_EVBITS(k)[3])
                                \cup S626_EVBITS(k)[int_source]]

\* the index strobe that restores the register with the polarity inverted
PulseIndexAStuck(st) ==
    LET cra == st.cr
        s1 == DebiWriteCr(st, "CRA", [cra EXCEPT !.indxpol_a = 1 - @], {})
    IN  DebiWriteCr(s1, "CRA", [cra EXCEPT !.indxpol_a = 1 - @], {})

s626_pulse_index_a(st) ==
    LET cra == st.cr
        s1 == DebiWriteCr(st, "CRA", [cra EXCEPT !.indxpol_a = 1 - @], {})
    IN  DebiWriteCr(s1, "CRA", cra, {})

s626_pulse_index_b(st) ==
    LET crb == st.cr
        s1 == DebiWriteCr(st, "CRB", [crb EXCEPT !.indxpol_b = 1 - @], {})
    IN  DebiWriteCr(s1, "CRB", crb, {})

\* k->set_mode: the CRA and CRB images of s626_set_mode_a / s626_set_mode_b,
\* the mask update made when the interrupt source is forced to Disabled,
\* and the two s626_debi_replace calls, CRA first
SetModeWrites(st, k, setup, disable_int_src) ==
    LET image == set_mode(st.cr, k, setup, disable_int_src)
        s0 == [st EXCEPT !.enabs = IF disable_int_src
                                   THEN @ \ S626_EVBITS(k)[3] ELSE @]
        s1 == DebiWriteCr(s0, "CRA", image, {})
    IN  DebiWriteCr(s1, "CRB", image, {IF IsB(k) THEN "B" ELSE "A"})

\* s626_set_latch_source
SetLatchSourceWrites(st, value) ==
    DebiReplaceCr(st, "CRB", CrbFields \ {"latchsrc"}, [latchsrc |-> value], {})

\* s626_preload: the low and the high word of the preload register
PreloadWrites(st, k, value) ==
    [st EXCEPT !.wr = @ \o <<[reg |-> "PRELOAD_LSW", cr |-> st.cr, cmd |-> {},
                              val |-> value % 65536],
                             [reg |-> "PRELOAD_MSW", cr |-> st.cr, cmd |-> {},
                              val |-> value \div 65536]>>]

\* the setup word of s626_counters_init
CounterSetup ==
    [TimerSetup EXCEPT !.clkpol = 0, !.encmode = S626_ENCMODE_COUNTER]

\* s626_timer_load with the index strobe issued before the preload is written
TimerLoadPulseFirst(st, k, tick) ==
    LET s1 == SetModeWrites(st, k, TimerSetup, FALSE)
        s3 == IF IsB(k) THEN s626_set_load_trig_b(s1, 0)
              ELSE s626_set_load_trig_a(s1, 0)
        s4 == IF IsB(k) THEN s626_pulse_index_b(s3) ELSE s626_pulse_index_a(s3)
        s2 == PreloadWrites(s4, k, tick)
        s5 == IF IsB(k) THEN s626_set_load_trig_b(s2, 1)
              ELSE s626_set_load_trig_a(s2, 1)
        s6 == IF IsB(k) THEN s626_set_int_src_b(s5, k, S626_INTSRC_OVER)
              ELSE s626_set_int_src_a(s5, k, S626_INTSRC_OVER)
    IN  SetLatchSourceWrites(s6, S626_LATCHSRC_A_INDXA)

TimerLoadWrites(st, k, tick) ==
    LET s1 == SetModeWrites(st, k, TimerSetup, FALSE)
        s2 == PreloadWrites(s1, k, tick)
        s3 == IF IsB(k) THEN s626_set_load_trig_b(s2, 0)
              ELSE s626_set_load_trig_a(s2, 0)
        s4 == IF IsB(k) THEN s626_pulse_index_b(s3) ELSE s626_pulse_index_a(s3)
        s5 == IF IsB(k) THEN s626_set_load_trig_b(s4, 1)
              ELSE s626_set_load_trig_a(s4, 1)
        s6 == IF IsB(k) THEN s626_set_int_src_b(s5, k, S626_INTSRC_OVER)
              ELSE s626_set_int_src_a(s5, k, S626_INTSRC_OVER)
    IN  SetLatchSourceWrites(s6, S626_LATCHSRC_A_INDXA)

\* s626_counters_init on the two counters ka and ka + 3 of a pair
CountersInitOne(st, k) ==
    LET s1 == SetModeWrites(st, k, CounterSetup, TRUE)
        s2 == IF IsB(k) THEN s626_set_int_src_b(s1, k, 0)
              ELSE s626_set_int_src_a(s1, k, 0)
        s3 == IF IsB(k) THEN s626_reset_cap_flags_b(s2)
              ELSE s626_reset_cap_flags_a(s2)
    IN  IF IsB(k) THEN s626_set_enable_b(s3, S626_CLKENAB_ALWAYS)
        ELSE s626_set_enable_a(s3, S626_CLKENAB_ALWAYS)

CountersInit ==
    CountersInitOne(CountersInitOne([cr |-> InitCr, cap |-> {}, enabs |-> {},
                                     wr |-> <<>>], 0), 3)

\* operations in a row on one counter pair
CtrOps == 2

\* a setup with every passed-through field different from the timer's
OtherSetup ==
    [loadsrc |-> 1, latchsrc |-> 1, intsrc |-> 1, indxsrc |-> 1, indxpol |-> 1,
     clkenab |-> S626_CLKENAB_ALWAYS, clkmult |-> 0, clkpol |-> 1,
     encmode |-> S626_ENCMODE_EXTENDER]

\* the ticks loaded: one that fits the low word and one that does not
CtrTicks == {S626_MAX_SPEED \div TimerBase - 1, 70000}

CtrCalls ==
    [op : {"set_mode"}, a : {TimerSetup, CounterSetup, OtherSetup} \X BOOLEAN]
    \cup [op : {"set_int_src"}, a : 0..3]
    \cup [op : {"set_enable", "set_load_trig"}, a : 0..1]
    \cup [op : {"reset_cap_flags", "pulse_index", "event"}, a : {0}]
    \cup [op : {"s626_timer_load"}, a : CtrTicks]

\* the call c made on counter k
CtrApply(st, k, c) ==
    LET s0 == [st EXCEPT !.wr = <<>>]
        b == IsB(k)
    IN  CASE c.op = "set_mode" -> SetModeWrites(s0, k, c.a[1], c.a[2])
          [] c.op = "set_int_src" ->
                IF b THEN s626_set_int_src_b(s0, k, c.a)
                ELSE s626_set_int_src_a(s0, k, c.a)
          [] c.op = "set_enable" ->
                IF b THEN s626_set_enable_b(s0, c.a) ELSE s626_set_enable_a(s0, c.a)
          [] c.op = "set_load_trig" ->
                IF b THEN s626_set_load_trig_b(s0, c.a)
                ELSE s626_set_load_trig_a(s0, c.a)
          [] c.op = "reset_cap_flags" ->
                IF b THEN s626_reset_cap_flags_b(s0) ELSE s626_reset_cap_flags_a(s0)
          [] c.op = "pulse_index" ->
                IF b THEN s626_pulse_index_b(s0) ELSE s626_pulse_index_a(s0)
          [] c.op = "s626_timer_load" -> TimerLoadWrites(s0, k, c.a)
          [] OTHER -> [s0 EXCEPT !.cap = @ \cup {IF b THEN "B" ELSE "A"}]

\* a call on a counter of the device as s626_counters_init left it
CtrFirst ==
    /\ test.fn = "none"
    /\ \E k \in Counters, c \in CtrCalls :
         test' = [fn |-> "ctr", arg |-> <<k, c, 1>>,
                  res |-> [before |-> CountersInit,
                           after |-> CtrApply(CountersInit, k, c)]]
    /\ obs' = Observe("call", 0, "", obs.cancelled)
    /\ UNCHANGED <<dev, ctx>>

\* a further call on a counter of the same pair
CtrNext ==
    /\ test.fn = "ctr"
    /\ test.arg[3] < CtrOps
    /\ \E k \in {(test.arg[1] % 3), (test.arg[1] % 3) + 3}, c \in CtrCalls :
         test' = [fn |-> "ctr", arg |-> <<k, c, test.arg[3] + 1>>,
                  res |-> [before |-> test.res.after,
                           after |-> CtrApply(test.res.after, k, c)]]
    /\ obs' = Observe("call", 0, "", obs.cancelled)
    /\ UNCHANGED <<dev, ctx>>

NextCtr ==
    \/ CtrFirst
    \/ CtrNext

SpecCtr == InitUnit /\ [][NextCtr]_vars

\* the fields of a counter in the registers of its pair, and its sibling
CtrFields(k) ==
    IF IsB(k)
    THEN {"indxsrc_b", "cntsrc_b", "intsrc_b", "loadsrc_b", "indxpol_b",
          "clkenab_b", "clkpol_b", "clkmult_b"}
    ELSE {"loadsrc_a", "indxsrc_a", "intsrc_a", "indxpol_a", "cntsrc_a",
          "clkpol_a", "clkmult_a", "clkenab_a"}
Sibling(k) == IF IsB(k) THEN k - 3 ELSE k + 3

\* C35: s626_timer_load(k, tick) makes its writes in this order: the mode
\* (Timer, load on index, software index, count down, clock gated by the
\* index), the preload register with tick, the load trigger set to index,
\* the index strobe (two writes, the load trigger still index), the load
\* trigger set to overflow, the capture reset and the interrupt source set
\* to overflow; on return the load trigger and the interrupt source are
\* overflow and the counter's bits of counter_int_enabs are its overflow bit.
C35_TimerLoadOrder ==
    (test.fn = "ctr" /\ test.arg[2].op = "s626_timer_load")
        => LET k == test.arg[1]
               wr == test.res.after.wr
               m(i) == get_mode(wr[i].cr, k)
               done == get_mode(test.res.after.cr, k)
               pol == IF IsB(k) THEN "indxpol_b" ELSE "indxpol_a"
           IN  /\ Len(wr) = 11
               /\ m(2).encmode = S626_ENCMODE_TIMER
               /\ m(2).loadsrc = 0
               /\ m(2).indxsrc = S626_INDXSRC_SOFT
               /\ m(2).clkpol = S626_CNTDIR_DOWN
               /\ m(2).clkenab = S626_CLKENAB_INDEX
               /\ wr[3].reg = "PRELOAD_LSW" /\ wr[4].reg = "PRELOAD_MSW"
               /\ wr[3].val + 65536 * wr[4].val = test.arg[2].a
               /\ m(5).loadsrc = 0
               /\ wr[6].cr = [wr[5].cr EXCEPT ![pol] = 1 - @]
               /\ wr[7].cr = wr[5].cr
               /\ m(8).loadsrc = 1
               /\ wr[9].cmd = {IF IsB(k) THEN "B" ELSE "A"}
               /\ m(10).intsrc = S626_INTSRC_OVER
               /\ m(10).loadsrc = 1
               /\ done.loadsrc = 1
               /\ done.intsrc = S626_INTSRC_OVER
               /\ test.res.after.enabs \cap S626_EVBITS(k)[3]
                    = S626_EVBITS(k)[S626_INTSRC_OVER]

\* the scan timer loaded with a tick wider than 16 bits, over a counter
\* that was left with another mode and both event interrupts enabled
C35_Witness ==
    /\ test.fn = "ctr"
    /\ test.arg[2].op = "s626_timer_load"
    /\ test.arg[1] = 5
    /\ test.arg[2].a > 65535
    /\ get_mode(test.res.before.cr, 5).intsrc = 3
    /\ get_mode(test.res.after.cr, 5).intsrc = S626_INTSRC_OVER

\* C36: pulse_index writes the control register of its counter twice (CRA
\* for an A counter, CRB for a B counter), first with only the index
\* polarity inverted and then with the value read, so that every mode
\* field of both counters of the pair is afterwards what it was before.
C36_PulseIndexRestores ==
    (test.fn = "ctr" /\ test.arg[2].op = "pulse_index")
        => LET k == test.arg[1]
               b == test.res.before
               a == test.res.after
               pol == IF IsB(k) THEN "indxpol_b" ELSE "indxpol_a"
           IN  /\ Len(a.wr) = 2
               /\ \A i \in 1..2 :
                    /\ a.wr[i].reg = (IF IsB(k) THEN "CRB" ELSE "CRA")
                    /\ a.wr[i].cmd = {}
               /\ a.wr[1].cr = [b.cr EXCEPT ![pol] = 1 - @]
               /\ a.wr[2].cr = b.cr
               /\ get_mode(a.cr, k) = get_mode(b.cr, k)
               /\ get_mode(a.cr, Sibling(k)) = get_mode(b.cr, Sibling(k))

\* the index of an A counter strobed while its index polarity is 1
C36_Witness ==
    /\ test.fn = "ctr"
    /\ test.arg[2].op = "pulse_index"
    /\ ~IsB(test.arg[1])
    /\ test.res.before.cr.indxpol_a = 1
    /\ test.res.after.wr[1].cr.indxpol_a = 0
    /\ test.res.after.cr.indxpol_a = 1

\* C37: reset_cap_flags, set_enable, set_load_trig, set_int_src and
\* set_mode change, besides the capture flags they reset, only fields of
\* their own counter: the fields and the capture flags of the sibling
\* counter and the latch source of the pair stay; set_enable,
\* set_load_trig and set_int_src change the one field they set, and
\* reset_cap_flags changes no field at all.
C37_SingleCounterFrame ==
    (/\ test.fn = "ctr"
     /\ test.arg[2].op \in {"reset_cap_flags", "set_enable", "set_load_trig",
                            "set_int_src", "set_mode"})
        => LET k == test.arg[1]
               op == test.arg[2].op
               b == test.res.before
               a == test.res.after
               sfx == IF IsB(k) THEN "_b" ELSE "_a"
               own == CASE op = "set_enable" -> {"clkenab" \o sfx}
                        [] op = "set_load_trig" -> {"loadsrc" \o sfx}
                        [] op = "set_int_src" -> {"intsrc" \o sfx}
                        [] op = "set_mode" -> CtrFields(k)
                        [] OTHER -> {}
           IN  /\ \A f \in DOMAIN b.cr \ own : a.cr[f] = b.cr[f]
               /\ a.cr.latchsrc = b.cr.latchsrc
               /\ get_mode(a.cr, Sibling(k)) = get_mode(b.cr, Sibling(k))
               /\ a.cap \cap {IF IsB(k) THEN "A" ELSE "B"}
                    = b.cap \cap {IF IsB(k) THEN "A" ELSE "B"}
               /\ op = "reset_cap_flags"
                    => get_mode(a.cr, k) = get_mode(b.cr, k)

\* the enable of an A counter changed while its sibling is an Extender with
\* its overflow interrupt selected
C37_Witness ==
    /\ test.fn = "ctr"
    /\ test.arg[2].op = "set_enable"
    /\ ~IsB(test.arg[1])
    /\ test.res.before.cr.clkenab_a # test.res.after.cr.clkenab_a
    /\ get_mode(test.res.before.cr, test.arg[1] + 3).encmode
         = S626_ENCMODE_EXTENDER
    /\ get_mode(test.res.after.cr, test.arg[1] + 3).intsrc = 1

\* C38: after every completed counter operation the bits of
\* counter_int_enabs of each of the six counters are the event bits of the
\* interrupt source programmed in its control register, and the operation
\* on one counter leaves the bits of the other counters as they were.
C38_MaskMatchesIntSrc ==
    (test.fn = "ctr" /\ test.arg[2].op # "event")
        => LET k == test.arg[1]
               b == test.res.before
               a == test.res.after
           IN  /\ \A j \in Counters :
                    a.enabs \cap S626_EVBITS(j)[3]
                      = IF j % 3 = k % 3
                        THEN S626_EVBITS(j)[get_mode(a.cr, j).intsrc]
                        ELSE {}
               /\ a.enabs \ S626_EVBITS(k)[3] = b.enabs \ S626_EVBITS(k)[3]

\* C39: for a command with stop_src = TRIG_COUNT and stop_arg = N, N = 0
\* included, no more than N scans are published (end-of-scan events made)
\* since the command was armed.
C39_AtMostStopArgScans ==
    dev.cmd.stop_src = TRIG_COUNT => dev.n_eos <= dev.cmd.stop_arg

====
